---------------------------- MODULE Spec2Model ----------------------------
(***************************************************************************)
(* A model of minimal_configclasses.py: the TomlFileLoader search path and *)
(* table navigation, the EnvVarLoader, the "last-seen wins" resolution of  *)
(* the loaders attached to a configclass, and the wrapped constructor.     *)
(*                                                                         *)
(* Strings are sequences of one-character strings, so that str.upper,      *)
(* str.lower, str.startswith, str.format and str.replace are modelled by   *)
(* what they do.  A directory is the sequence of its components from the   *)
(* filesystem root; a path is a directory and a file name.                 *)
(***************************************************************************)
EXTENDS Integers, Sequences, FiniteSets, TLC

VARIABLES
    cwd,            \* Path.cwd()
    fs,             \* the filesystem: a function from the existing paths to their content
    environ,        \* os.environ, the string-valued variables
    environ_dirs,   \* os.environ, the directory-valued variables (XDG_CONFIG_HOME, APPDATA)
    system,         \* platform.system()
    loader,         \* a TomlFileLoader instance, or NoLoader
    config_cls,     \* a decorated class: its fields and its __configclass_loaders__
    last            \* what the most recent operation was given and what it produced

vars == <<cwd, fs, environ, environ_dirs, system, loader, config_cls, last>>

----------------------------------------------------------------------------
(* Bounds of the model. *)

\* the deepest working directory, counted in components below the root
MaxDepth == 2
\* the most repository marker directories present at once
MaxMarkers == 2
\* the most configuration files present at once
MaxFiles == 2
\* the most loaders attached to a custom configclass
MaxLoaders == 3

----------------------------------------------------------------------------
(* Strings. *)

LOWERCASE == <<"a","b","c","d","e","f","g","h","i","j","k","l","m",
               "n","o","p","q","r","s","t","u","v","w","x","y","z">>
UPPERCASE == <<"A","B","C","D","E","F","G","H","I","J","K","L","M",
               "N","O","P","Q","R","S","T","U","V","W","X","Y","Z">>

IndexIn(c, alphabet) ==
    IF \E i \in 1..Len(alphabet) : alphabet[i] = c
    THEN CHOOSE i \in 1..Len(alphabet) : alphabet[i] = c
    ELSE 0

\* str.lower and str.upper, character by character
lower(s) == [i \in 1..Len(s) |->
                IF IndexIn(s[i], UPPERCASE) > 0 THEN LOWERCASE[IndexIn(s[i], UPPERCASE)] ELSE s[i]]
upper(s) == [i \in 1..Len(s) |->
                IF IndexIn(s[i], LOWERCASE) > 0 THEN UPPERCASE[IndexIn(s[i], LOWERCASE)] ELSE s[i]]

\* str.startswith
startswith(s, prefix) ==
    Len(prefix) <= Len(s) /\ SubSeq(s, 1, Len(prefix)) = prefix

\* s[n:]
SliceFrom(s, n) == IF n >= Len(s) THEN <<>> ELSE SubSeq(s, n + 1, Len(s))

\* key.replace("-", "_")
replace_hyphens(s) == [i \in 1..Len(s) |-> IF s[i] = "-" THEN "_" ELSE s[i]]

\* "sep".join(parts)
RECURSIVE join(_, _)
join(sep, parts) ==
    IF Len(parts) = 0 THEN <<>>
    ELSE IF Len(parts) = 1 THEN parts[1]
    ELSE parts[1] \o sep \o join(sep, Tail(parts))

----------------------------------------------------------------------------
(* Python values, dictionaries and exceptions. *)

PyInt(n)  == [t |-> "int", v |-> n]
PyStr(s)  == [t |-> "str", v |-> s]
PyBool(b) == [t |-> "bool", v |-> b]
\* a dict with str keys (a TOML table): a function from its keys
PyDict(f) == [t |-> "dict", v |-> f]

EmptyDict == [k \in {} |-> 0]

\* d.update(m) and {**d, **m}: the keys of m overwrite those of d
DictUpdate(d, m) ==
    [k \in (DOMAIN d) \cup (DOMAIN m) |-> IF k \in DOMAIN m THEN m[k] ELSE d[k]]

\* the outcome of a call: a returned value or a raised exception
Return(v) == [raised |-> FALSE, value |-> v]
Raise(type, args) == [raised |-> TRUE, type |-> type, args |-> args]

----------------------------------------------------------------------------
(* Names fixed by the program. *)

PYPROJECT_TOML == <<"p","y","p","r","o","j","e","c","t",".","t","o","m","l">>
TOOL_TABLE == <<"t","o","o","l">>
DOT_GIT == <<".","g","i","t">>
DOT_HG  == <<".","h","g">>
DOT_SVN == <<".","s","v","n">>
REPO_MARKERS == <<DOT_GIT, DOT_HG, DOT_SVN>>

\* "{}.toml" and ".{}.toml": a template is the text before and after its one
\* replacement field
DEFAULT_TEMPLATES ==
    << [pre |-> <<>>, post |-> <<".","t","o","m","l">>],
       [pre |-> <<".">>, post |-> <<".","t","o","m","l">>] >>

\* template.format(name)
format(template, name) == template.pre \o name \o template.post

----------------------------------------------------------------------------
(* Paths. *)

ROOT == <<>>

\* dir / file_name
Join(dir, name) == [dir |-> dir, name |-> name]

\* list(dir.parents): the nearest ancestor first, the filesystem root last
parents(dir) == [i \in 1..Len(dir) |-> SubSeq(dir, 1, Len(dir) - i)]

\* path.exists()
exists(path) == path \in DOMAIN fs

\* Path.home()
HOME_DIR == <<"home">>
home == HOME_DIR


----------------------------------------------------------------------------
(* The filesystem's entries and load_toml. *)

None == [t |-> "NoneType"]

\* a directory (a repository marker such as .git is one)
DirEntry == [kind |-> "dir"]
\* a file whose text tomllib parses to the document toml, a PyDict
TomlFile(toml) == [kind |-> "file", toml |-> toml]
\* a file whose text tomllib rejects
MALFORMED == [t |-> "malformed"]

\* namespace[:n], joined with dots
dotted(namespace, n) == join(<<".">>, SubSeq(namespace, 1, n))

\* the loop and the final check of load_toml, from the 1-based position i;
\* data is the value reached so far
RECURSIVE navigate(_, _, _)
navigate(data, namespace, i) ==
    IF i > Len(namespace)
    THEN IF data.t = "dict" THEN Return(data.v)
         ELSE IF Len(namespace) = 0 THEN Raise("UnboundLocalError", <<"ind">>)
         ELSE Raise("TypeError", <<dotted(namespace, Len(namespace)), data.t>>)
    ELSE IF data.t # "dict" THEN Raise("TypeError", <<dotted(namespace, i), data.t>>)
    ELSE IF namespace[i] \notin DOMAIN data.v THEN Raise("KeyError", <<namespace[i]>>)
    ELSE navigate(data.v[namespace[i]], namespace, i + 1)

load_toml(path, namespace) ==
    IF ~exists(path) THEN Raise("FileNotFoundError", <<>>)
    ELSE IF fs[path].kind = "dir" THEN Raise("IsADirectoryError", <<>>)
    ELSE IF fs[path].toml = MALFORMED THEN Raise("TOMLDecodeError", <<>>)
    ELSE navigate(fs[path].toml, namespace, 1)

----------------------------------------------------------------------------
(* TomlFileLoader. *)

\* the annotated attributes: the parameters of the generated __init__
TOML_LOADER_FIELDS ==
    {"namespace", "convert_hyphens", "runtime_specified_path_hook", "check_pyproject_toml",
     "named_file_templates", "check_xdg_config_home_dir",
     "check_macos_application_support_dir", "check_windows_appdata_dir", "check_home_dir"}

\* the defaults of the fields, and the two plain class attributes
\* search_ancestor_dirs and stop_on_repo_root, which carry no annotation
TOML_LOADER_DEFAULTS ==
    [namespace |-> None,
     convert_hyphens |-> TRUE,
     runtime_specified_path_hook |-> None,
     check_pyproject_toml |-> TRUE,
     named_file_templates |-> DEFAULT_TEMPLATES,
     search_ancestor_dirs |-> TRUE,
     stop_on_repo_root |-> TRUE,
     check_xdg_config_home_dir |-> TRUE,
     check_macos_application_support_dir |-> TRUE,
     check_windows_appdata_dir |-> TRUE,
     check_home_dir |-> TRUE]

\* TomlFileLoader(**kwargs): the dataclass __init__, then __post_init__
TomlFileLoader(kwargs) ==
    IF ~(DOMAIN kwargs \subseteq TOML_LOADER_FIELDS)
    THEN Raise("TypeError", <<"unexpected keyword argument">>)
    ELSE IF "namespace" \notin DOMAIN kwargs
    THEN Raise("TypeError", <<"missing required argument">>)
    ELSE IF Len(kwargs["namespace"]) < 1
    THEN Raise("ValueError", <<"namespace sequence must contain at least one part.">>)
    ELSE Return([a \in DOMAIN TOML_LOADER_DEFAULTS |->
                    IF a \in DOMAIN kwargs THEN kwargs[a] ELSE TOML_LOADER_DEFAULTS[a]])

\* property file_names
file_names(self) ==
    [i \in 1..Len(self.named_file_templates) |->
        format(self.named_file_templates[i], self.namespace[1])]

\* the named files of one directory
NamedFilesIn(self, dir) ==
    [i \in 1..Len(file_names(self)) |-> Join(dir, file_names(self)[i])]

\* any((dir / repo).exists() for repo in (".git", ".hg", ".svn"))
HasRepoMarker(dir) ==
    \E i \in 1..Len(REPO_MARKERS) : exists(Join(dir, REPO_MARKERS[i]))

\* the body of the loop over dirs_to_search, from position i
RECURSIVE WalkFrom(_, _, _)
\* a variant that yields the named files of a directory before its pyproject.toml
WalkFrom_NamedFilesFirst(self, dirs_to_search, i) ==
    IF i > Len(dirs_to_search) THEN <<>>
    ELSE LET dir == dirs_to_search[i] IN
         [k \in 1..Len(self.named_file_templates) |->
             Join(dir, format(self.named_file_templates[k], self.namespace[1]))]
         \o (IF self.check_pyproject_toml THEN <<Join(dir, PYPROJECT_TOML)>> ELSE <<>>)
         \o (IF self.stop_on_repo_root
                /\ \E k \in 1..Len(REPO_MARKERS) : Join(dir, REPO_MARKERS[k]) \in DOMAIN fs
             THEN <<>>
             ELSE WalkFrom(self, dirs_to_search, i + 1))
\* a variant that tests for the repository marker before it yields the
\* candidates of the directory
WalkFrom_StopBeforeYield(self, dirs_to_search, i) ==
    IF i > Len(dirs_to_search) THEN <<>>
    ELSE LET dir == dirs_to_search[i] IN
         IF self.stop_on_repo_root
            /\ \E k \in 1..Len(REPO_MARKERS) : Join(dir, REPO_MARKERS[k]) \in DOMAIN fs
         THEN <<>>
         ELSE (IF self.check_pyproject_toml THEN <<Join(dir, PYPROJECT_TOML)>> ELSE <<>>)
              \o [k \in 1..Len(self.named_file_templates) |->
                     Join(dir, format(self.named_file_templates[k], self.namespace[1]))]
              \o WalkFrom(self, dirs_to_search, i + 1)
WalkFrom(self, dirs_to_search, i) ==
    IF i > Len(dirs_to_search) THEN <<>>
    ELSE LET dir == dirs_to_search[i] IN
         (IF self.check_pyproject_toml THEN <<Join(dir, PYPROJECT_TOML)>> ELSE <<>>)
         \o NamedFilesIn(self, dir)
         \o (IF self.stop_on_repo_root /\ HasRepoMarker(dir)
             THEN <<>>
             ELSE WalkFrom(self, dirs_to_search, i + 1))

\* the candidates of the current working directory and its ancestors
DirectoryWalk(self) ==
    WalkFrom(self, IF self.search_ancestor_dirs THEN <<cwd>> \o parents(cwd) ELSE <<cwd>>, 1)

\* os.environ.get(name, default), for the directory-valued variables
EnvDir(name, default) ==
    IF name \in DOMAIN environ_dirs THEN environ_dirs[name] ELSE default

\* a variant that looks into both application-data directories whatever the
\* platform is
UserLevelPaths_AnyPlatform(self) ==
    (IF self.check_xdg_config_home_dir
     THEN NamedFilesIn(self, EnvDir("XDG_CONFIG_HOME", home \o <<".config">>))
     ELSE <<>>)
    \o (IF self.check_macos_application_support_dir
        THEN NamedFilesIn(self, home \o <<"Library", "Application Support">>)
        ELSE <<>>)
    \o (IF self.check_windows_appdata_dir
        THEN NamedFilesIn(self, EnvDir("APPDATA", home \o <<"AppData", "Roaming">>))
        ELSE <<>>)
    \o (IF self.check_home_dir THEN NamedFilesIn(self, home) ELSE <<>>)
\* the candidates of the user-level locations
UserLevelPaths(self) ==
    (IF self.check_xdg_config_home_dir
     THEN NamedFilesIn(self, EnvDir("XDG_CONFIG_HOME", home \o <<".config">>))
     ELSE <<>>)
    \o (IF self.check_macos_application_support_dir /\ system = "Darwin"
        THEN NamedFilesIn(self, home \o <<"Library", "Application Support">>)
        ELSE <<>>)
    \o (IF self.check_windows_appdata_dir /\ system = "Windows"
        THEN NamedFilesIn(self, EnvDir("APPDATA", home \o <<"AppData", "Roaming">>))
        ELSE <<>>)
    \o (IF self.check_home_dir THEN NamedFilesIn(self, home) ELSE <<>>)

\* property paths_to_check, every path the generator yields when run to its end
paths_to_check(self) ==
    (IF self.runtime_specified_path_hook # None
     THEN <<self.runtime_specified_path_hook.returns>>
     ELSE <<>>)
    \o DirectoryWalk(self)
    \o UserLevelPaths(self)

\* the local variable namespace of __call__ is unbound until it is assigned
Unbound == [bound |-> FALSE]
Bound(v) == [bound |-> TRUE, v |-> v]

\* the table path __call__ passes to load_toml for a path, given the value
\* the local variable namespace has when the path is reached
NamespaceFor(self, path, namespace) ==
    IF path.name = PYPROJECT_TOML THEN Bound(<<TOOL_TABLE>> \o self.namespace)
    ELSE IF namespace.bound THEN Bound(SliceFrom(namespace.v, 1))
    ELSE Unbound

\* a variant that also rewrites the keys of nested tables
RECURSIVE ConvertHyphens_NestedTablesToo(_)
ConvertHyphens_NestedTablesToo(data) ==
    [key \in {replace_hyphens(k) : k \in DOMAIN data} |->
        LET value == data[CHOOSE k \in DOMAIN data : replace_hyphens(k) = key]
        IN  IF value.t = "dict" THEN PyDict(ConvertHyphens_NestedTablesToo(value.v))
            ELSE value]
\* {key.replace("-", "_"): value for key, value in data.items()}
\* (the documents of the model hold no two keys that differ only by this)
ConvertHyphens(data) ==
    [key \in {replace_hyphens(k) : k \in DOMAIN data} |->
        data[CHOOSE k \in DOMAIN data : replace_hyphens(k) = key]]

\* the loop of __call__ from position i: the outcome, and the candidates
\* visited with the table path used for each
RECURSIVE CallFrom(_, _, _, _, _)
CallFrom(self, paths, i, namespace, visited) ==
    IF i > Len(paths) THEN [outcome |-> Return(EmptyDict), visited |-> visited]
    ELSE LET path == paths[i]
             ns == NamespaceFor(self, path, namespace)
         IN  IF ~ns.bound
             THEN [outcome |-> Raise("UnboundLocalError", <<"namespace">>),
                   visited |-> visited]
             ELSE LET loaded == load_toml(path, ns.v)
                      seen == Append(visited, [path |-> path, namespace |-> ns.v])
                  IN  IF loaded.raised
                      THEN IF loaded.type \in {"KeyError", "FileNotFoundError"}
                           THEN CallFrom(self, paths, i + 1, ns, seen)
                           ELSE [outcome |-> loaded, visited |-> seen]
                      ELSE [outcome |-> Return(IF self.convert_hyphens
                                               THEN ConvertHyphens(loaded.value)
                                               ELSE loaded.value),
                            visited |-> seen]

\* TomlFileLoader.__call__ with what it visited
TomlFileLoaderRun(self) == CallFrom(self, paths_to_check(self), 1, Unbound, <<>>)

\* TomlFileLoader.__call__
TomlFileLoaderCall(self) == TomlFileLoaderRun(self).outcome

----------------------------------------------------------------------------
(* convert_to_type and EnvVarLoader. *)

DIGITS == <<"0","1","2","3","4","5","6","7","8","9">>

\* the number a string of decimal digits denotes
RECURSIVE DigitsValue(_)
DigitsValue(s) ==
    IF Len(s) = 0 THEN 0
    ELSE 10 * DigitsValue(SubSeq(s, 1, Len(s) - 1)) + (IndexIn(s[Len(s)], DIGITS) - 1)

IsDigits(s) == Len(s) > 0 /\ \A i \in 1..Len(s) : IndexIn(s[i], DIGITS) > 0

\* int(val), for text made of an optional sign and decimal digits or of
\* anything int() rejects
int(val) ==
    IF IsDigits(val) THEN Return(PyInt(DigitsValue(val)))
    ELSE IF Len(val) > 1 /\ val[1] = "-" /\ IsDigits(Tail(val))
    THEN Return(PyInt(0 - DigitsValue(Tail(val))))
    ELSE IF Len(val) > 1 /\ val[1] = "+" /\ IsDigits(Tail(val))
    THEN Return(PyInt(DigitsValue(Tail(val))))
    ELSE Raise("ValueError", <<"invalid literal for int() with base 10", val>>)

\* a variant in which a text that is neither "true" nor "false" gives False
convert_to_type_FalseByDefault(val, type_) ==
    IF type_ = "int" THEN int(val)
    ELSE IF type_ = "bytes" THEN Return([t |-> "bytes", v |-> val])
    ELSE IF type_ = "bool" THEN Return(PyBool(lower(val) = <<"t","r","u","e">>))
    ELSE Return(PyStr(val))
\* convert_to_type(val, type_), for the declared types int, bool, bytes and str
convert_to_type(val, type_) ==
    IF type_ = "int" THEN int(val)
    ELSE IF type_ = "bytes" THEN Return([t |-> "bytes", v |-> val])
    ELSE IF type_ = "bool"
    THEN IF lower(val) = <<"t","r","u","e">> THEN Return(PyBool(TRUE))
         ELSE IF lower(val) = <<"f","a","l","s","e">> THEN Return(PyBool(FALSE))
         ELSE Raise("ValueError", <<"Unable to convert bool value:", val>>)
    ELSE Return(PyStr(val))

\* EnvVarLoader(namespace, convert_types=True), with the default
\* to_field_name_transform (lower-casing)
EnvVarLoader(namespace, convert_types) ==
    [namespace |-> namespace, convert_types |-> convert_types,
     to_field_name_transform |-> "lower"]

\* self.to_field_name_transform(name)
ApplyTransform(transform, name) == IF transform = "lower" THEN lower(name) ELSE name

\* a variant of the prefix without the trailing underscore
prefix_NoTrailingUnderscore(self) ==
    join(<<"_">>, [i \in 1..Len(self.namespace) |-> upper(self.namespace[i])])
\* property prefix
prefix(self) ==
    join(<<"_">>, [i \in 1..Len(self.namespace) |-> upper(self.namespace[i])]) \o <<"_">>

\* property env_vars: the names of the variables that start with the prefix
env_vars(self) == {key \in DOMAIN environ : startswith(key, prefix(self))}

\* get_type_hints(data_class)
get_type_hints(data_class) ==
    [name \in {data_class.fields[i].name : i \in 1..Len(data_class.fields)} |->
        (CHOOSE f \in {data_class.fields[i] : i \in 1..Len(data_class.fields)} :
            f.name = name).type]

\* a variant that converts whatever convert_types is
EnvVarLoaderCall_AlwaysConverts(self, data_class) ==
    LET field_type_hints ==
            get_type_hints(data_class)
        field_name(key) ==
            ApplyTransform(self.to_field_name_transform, SliceFrom(key, Len(prefix(self))))
        val(key) ==
            IF field_name(key) \in DOMAIN field_type_hints
            THEN convert_to_type(environ[key], field_type_hints[field_name(key)])
            ELSE Return(PyStr(environ[key]))
        failing == {key \in env_vars(self) : val(key).raised}
    IN  IF failing # {} THEN val(CHOOSE key \in failing : TRUE)
        ELSE Return([name \in {field_name(key) : key \in env_vars(self)} |->
                        val(CHOOSE key \in env_vars(self) : field_name(key) = name).value])
\* EnvVarLoader.__call__ (the variables of the model yield no two equal field
\* names, and when several values fail to convert the error of one of them
\* is raised)
EnvVarLoaderCall(self, data_class) ==
    LET field_type_hints ==
            IF self.convert_types THEN get_type_hints(data_class) ELSE EmptyDict
        field_name(key) ==
            ApplyTransform(self.to_field_name_transform, SliceFrom(key, Len(prefix(self))))
        val(key) ==
            IF field_name(key) \in DOMAIN field_type_hints
            THEN convert_to_type(environ[key], field_type_hints[field_name(key)])
            ELSE Return(PyStr(environ[key]))
        failing == {key \in env_vars(self) : val(key).raised}
    IN  IF failing # {} THEN val(CHOOSE key \in failing : TRUE)
        ELSE Return([name \in {field_name(key) : key \in env_vars(self)} |->
                        val(CHOOSE key \in env_vars(self) : field_name(key) = name).value])

----------------------------------------------------------------------------
(* Configclasses: the decorators, resolve_sources and the wrapped __init__. *)

\* a loader attached to a class: one of the two built-in loaders, or any
\* other callable, of which the model keeps the outcome of a call
TomlLoader(self) == [kind |-> "TomlFileLoader", self |-> self]
EnvLoader(self) == [kind |-> "EnvVarLoader", self |-> self]
Callable(outcome) == [kind |-> "callable", outcome |-> outcome]

\* loader(cls)
CallLoader(ld, cls) ==
    IF ld.kind = "TomlFileLoader" THEN TomlFileLoaderCall(ld.self)
    ELSE IF ld.kind = "EnvVarLoader" THEN EnvVarLoaderCall(ld.self, cls)
    ELSE ld.outcome

\* the loop of _resolve_sources_method from position i, with resolved as
\* built so far and the positions of the loaders called so far
RECURSIVE ResolveFrom(_, _, _, _)
\* a variant in which a key keeps the value of the first loader that has it
ResolveFrom_FirstSeenWins(cls, i, resolved, calls) ==
    IF i > Len(cls.loaders) THEN [outcome |-> Return(resolved), calls |-> calls]
    ELSE LET loaded == CallLoader(cls.loaders[i], cls) IN
         IF loaded.raised THEN [outcome |-> loaded, calls |-> Append(calls, i)]
         ELSE ResolveFrom(cls, i + 1, DictUpdate(loaded.value, resolved), Append(calls, i))
ResolveFrom(cls, i, resolved, calls) ==
    IF i > Len(cls.loaders) THEN [outcome |-> Return(resolved), calls |-> calls]
    ELSE LET loaded == CallLoader(cls.loaders[i], cls) IN
         IF loaded.raised THEN [outcome |-> loaded, calls |-> Append(calls, i)]
         ELSE ResolveFrom(cls, i + 1, DictUpdate(resolved, loaded.value), Append(calls, i))

\* _resolve_sources_method, with the loaders it called
resolve_sources_method(cls) == ResolveFrom(cls, 1, EmptyDict, <<>>)

\* is_configclass(obj)
is_configclass(obj) == "loaders" \in DOMAIN obj

\* resolve_sources(obj), with the loaders it called: an AttributeError, from
\* the missing method or from inside a loader, becomes a TypeError
resolve_sources(obj) ==
    IF ~is_configclass(obj)
    THEN [outcome |-> Raise("TypeError", <<"Must be called with configclass type or instance.">>),
          calls |-> <<>>]
    ELSE LET run == resolve_sources_method(obj) IN
         IF run.outcome.raised /\ run.outcome.type = "AttributeError"
         THEN [outcome |-> Raise("TypeError",
                                 <<"Must be called with configclass type or instance.">>),
               calls |-> run.calls]
         ELSE run

\* the __init__ a dataclass generates: positional arguments fill the fields
\* in order, keyword arguments by name, the rest take their defaults
original_init(cls, args, kwargs) ==
    LET names == [i \in 1..Len(cls.fields) |-> cls.fields[i].name] IN
    IF Len(args) > Len(names)
    THEN Raise("TypeError", <<"too many positional arguments">>)
    ELSE IF \E key \in DOMAIN kwargs : \A i \in 1..Len(names) : names[i] # key
    THEN Raise("TypeError", <<"unexpected keyword argument">>)
    ELSE IF \E i \in 1..Len(args) : names[i] \in DOMAIN kwargs
    THEN Raise("TypeError", <<"multiple values for argument">>)
    ELSE IF \E i \in (Len(args) + 1)..Len(names) :
                names[i] \notin DOMAIN kwargs /\ ~cls.fields[i].has_default
    THEN Raise("TypeError", <<"missing required argument">>)
    ELSE Return([name \in {names[i] : i \in 1..Len(names)} |->
                    LET i == CHOOSE j \in 1..Len(names) : names[j] = name IN
                    IF i <= Len(args) THEN args[i]
                    ELSE IF name \in DOMAIN kwargs THEN kwargs[name]
                    ELSE cls.fields[i].default])

\* a variant of init_wrapper in which the resolved data overwrite the
\* arguments of the caller
init_wrapper_ResolvedWins(cls, args, kwargs) ==
    LET run == resolve_sources(cls) IN
    IF run.outcome.raised
    THEN [outcome |-> run.outcome, resolved |-> None, calls |-> run.calls,
          initialised |-> FALSE]
    ELSE [outcome |-> original_init(cls, args, DictUpdate(kwargs, run.outcome.value)),
          resolved |-> run.outcome.value, calls |-> run.calls, initialised |-> TRUE]
\* a variant of init_wrapper that falls back on the arguments of the caller
\* and the defaults when a loader raises
init_wrapper_DefaultsOnError(cls, args, kwargs) ==
    LET run == resolve_sources(cls) IN
    IF run.outcome.raised
    THEN [outcome |-> original_init(cls, args, kwargs), resolved |-> None,
          calls |-> run.calls, initialised |-> TRUE]
    ELSE [outcome |-> original_init(cls, args, DictUpdate(run.outcome.value, kwargs)),
          resolved |-> run.outcome.value, calls |-> run.calls, initialised |-> TRUE]
\* a variant of init_wrapper that resolves the sources at the first
\* construction only and reuses that mapping afterwards
init_wrapper_ReusesResolved(cls, args, kwargs) ==
    LET run == IF last.op = "__init__" /\ ~last.outcome.raised
               THEN [outcome |-> Return(last.resolved), calls |-> <<>>]
               ELSE resolve_sources(cls) IN
    IF run.outcome.raised
    THEN [outcome |-> run.outcome, resolved |-> None, calls |-> run.calls,
          initialised |-> FALSE]
    ELSE [outcome |-> original_init(cls, args, DictUpdate(run.outcome.value, kwargs)),
          resolved |-> run.outcome.value, calls |-> run.calls, initialised |-> TRUE]
\* a variant of init_wrapper that passes on only the resolved keys that are
\* fields of the class
init_wrapper_OnlyDeclaredFields(cls, args, kwargs) ==
    LET run == resolve_sources(cls) IN
    IF run.outcome.raised
    THEN [outcome |-> run.outcome, resolved |-> None, calls |-> run.calls,
          initialised |-> FALSE]
    ELSE [outcome |-> original_init(cls, args,
                         DictUpdate([key \in {k \in DOMAIN run.outcome.value :
                                                 \E i \in 1..Len(cls.fields) :
                                                    cls.fields[i].name = k}
                                        |-> run.outcome.value[key]],
                                    kwargs)),
          resolved |-> run.outcome.value, calls |-> run.calls, initialised |-> TRUE]
\* init_wrapper: the object made, the mapping resolve_sources returned, the
\* loaders it called, and whether original_init was invoked
init_wrapper(cls, args, kwargs) ==
    LET run == resolve_sources(cls) IN
    IF run.outcome.raised
    THEN [outcome |-> run.outcome, resolved |-> None, calls |-> run.calls,
          initialised |-> FALSE]
    ELSE [outcome |-> original_init(cls, args, DictUpdate(run.outcome.value, kwargs)),
          resolved |-> run.outcome.value, calls |-> run.calls, initialised |-> TRUE]

\* custom_configclass(loaders)(cls)
custom_configclass(loaders, cls) ==
    [fields |-> cls.fields, loaders |-> loaders]

\* a class given where a namespace part is expected (the decorator applied
\* without a call): of such an argument the model keeps only that it is a type
CLASS_ARGUMENT == <<"<class>">>

\* isinstance(obj, type), for a positional argument of configclass
isinstance_type(obj) == obj = CLASS_ARGUMENT

\* a variant of configclass that puts the EnvVarLoader before the TomlFileLoader
configclass_EnvVarLoaderFirst(namespace, runtime_specified_path_hook, cls) ==
    IF Len(namespace) < 1 \/ isinstance_type(namespace[1])
    THEN Raise("ValueError",
               <<"configclass must be called with at least one namespace argument">>)
    ELSE Return(custom_configclass(
        << EnvLoader(EnvVarLoader(namespace, TRUE)),
           TomlLoader(TomlFileLoader(("namespace" :> namespace)
               @@ ("runtime_specified_path_hook" :> runtime_specified_path_hook)).value) >>,
        cls))
\* configclass(*namespace, runtime_specified_path_hook=...)(cls), with no
\* argument_parser: the ValueError of the call, or the decorated class
configclass(namespace, runtime_specified_path_hook, cls) ==
    IF Len(namespace) < 1 \/ isinstance_type(namespace[1])
    THEN Raise("ValueError",
               <<"configclass must be called with at least one namespace argument">>)
    ELSE Return(custom_configclass(
        << TomlLoader(TomlFileLoader(("namespace" :> namespace)
               @@ ("runtime_specified_path_hook" :> runtime_specified_path_hook)).value),
           EnvLoader(EnvVarLoader(namespace, TRUE)) >>,
        cls))

----------------------------------------------------------------------------
(* The inputs the operations are tried on. *)

FOO == <<"f","o","o">>
BAR == <<"b","a","r">>

\* the namespaces of a loader: one part, or nested
Namespaces == {<<FOO>>, <<FOO, BAR>>}

\* the directory at depth k on the way from the root to the deepest working
\* directory: /, /home, /home/d, /home/d/d, ...
ChainDir(k) == [i \in 1..k |-> IF i = 1 THEN "home" ELSE "d"]
ChainDirs == {ChainDir(k) : k \in 0..MaxDepth}

\* a runtime_specified_path_hook is a callable: the model keeps what it returns
Hook(path) == [returns |-> path]
CFG_DIR == <<"etc">>
CUSTOM_TOML == <<"c","u","s","t","o","m",".","t","o","m","l">>
HookPaths == {Join(CFG_DIR, CUSTOM_TOML), Join(CFG_DIR, PYPROJECT_TOML)}

NoOp == [op |-> "none"]

UserLevelOff ==
    ("check_xdg_config_home_dir" :> FALSE) @@ ("check_home_dir" :> FALSE)
    @@ ("check_macos_application_support_dir" :> FALSE)
    @@ ("check_windows_appdata_dir" :> FALSE)

\* keyword arguments the generated __init__ accepts, with the hook paths in hooks
AcceptedKwargs(hooks) ==
    { ("namespace" :> ns) @@ hook @@ pyproject @@ user :
        ns \in Namespaces,
        hook \in {EmptyDict} \cup
                 {("runtime_specified_path_hook" :> Hook(p)) : p \in hooks},
        pyproject \in {EmptyDict, ("check_pyproject_toml" :> FALSE)},
        user \in {EmptyDict, UserLevelOff} }

\* keyword arguments naming the two attributes the class documents as
\* arguments, as the callers of the loader pass them
DocumentedKwargs ==
    { ("namespace" :> ns) @@ UserLevelOff @@ (attr :> FALSE) :
        ns \in Namespaces, attr \in {"search_ancestor_dirs", "stop_on_repo_root"} }

\* an empty namespace sequence
EmptyNamespaceKwargs == { ("namespace" :> <<>>) }

----------------------------------------------------------------------------
(* Operations on the world around the program. *)

MarkerPaths == {Join(d, REPO_MARKERS[i]) : d \in ChainDirs, i \in 1..Len(REPO_MARKERS)}

\* os.chdir(dir)
Chdir(dir) ==
    /\ dir # cwd
    /\ cwd' = dir
    /\ last' = NoOp
    /\ UNCHANGED <<fs, environ, environ_dirs, system, loader, config_cls>>

\* (dir / ".git").mkdir(), and the same for .hg and .svn
Mkdir(path) ==
    /\ ~exists(path)
    /\ Cardinality({q \in DOMAIN fs : fs[q].kind = "dir"}) < MaxMarkers
    /\ fs' = (path :> DirEntry) @@ fs
    /\ last' = NoOp
    /\ UNCHANGED <<cwd, environ, environ_dirs, system, loader, config_cls>>

\* path.unlink() or path.rmdir()
Remove(path) ==
    /\ exists(path)
    /\ fs' = [q \in (DOMAIN fs) \ {path} |-> fs[q]]
    /\ last' = NoOp
    /\ UNCHANGED <<cwd, environ, environ_dirs, system, loader, config_cls>>

----------------------------------------------------------------------------
(* Operations on a TomlFileLoader. *)

\* loader = TomlFileLoader(**kwargs); a raising constructor leaves no instance
NewTomlFileLoader(kwargs) ==
    LET made == TomlFileLoader(kwargs) IN
    /\ loader' = IF made.raised THEN None ELSE made.value
    /\ last' = [op |-> "TomlFileLoader", kwargs |-> kwargs, outcome |-> made]
    /\ UNCHANGED <<cwd, fs, environ, environ_dirs, system, config_cls>>

\* loader.search_ancestor_dirs = value, loader.stop_on_repo_root = value:
\* assignment to the instance shadows the class attribute
SetAttr(attr, value) ==
    /\ loader # None
    /\ loader[attr] # value
    /\ loader' = [loader EXCEPT ![attr] = value]
    /\ last' = NoOp
    /\ UNCHANGED <<cwd, fs, environ, environ_dirs, system, config_cls>>

\* list(loader.paths_to_check)
ListPathsToCheck ==
    /\ loader # None
    /\ last' = [op |-> "paths_to_check", paths |-> paths_to_check(loader)]
    /\ UNCHANGED <<cwd, fs, environ, environ_dirs, system, loader, config_cls>>

----------------------------------------------------------------------------
(* The search path: TomlFileLoader instances, working directories and      *)
(* repository markers.                                                     *)

InitPaths ==
    /\ cwd = ROOT
    /\ fs = EmptyDict
    /\ environ = EmptyDict
    /\ environ_dirs = EmptyDict
    /\ system = "Linux"
    /\ loader = None
    /\ config_cls = None
    /\ last = NoOp

NextPaths ==
    \/ \E dir \in ChainDirs : Chdir(dir)
    \/ \E path \in MarkerPaths : Mkdir(path)
    \/ \E path \in MarkerPaths : Remove(path)
    \/ \E kwargs \in AcceptedKwargs({Join(CFG_DIR, CUSTOM_TOML)}) : NewTomlFileLoader(kwargs)
    \/ \E kwargs \in DocumentedKwargs : NewTomlFileLoader(kwargs)
    \/ \E kwargs \in EmptyNamespaceKwargs : NewTomlFileLoader(kwargs)
    \/ \E attr \in {"search_ancestor_dirs", "stop_on_repo_root"}, value \in BOOLEAN :
          SetAttr(attr, value)
    \/ ListPathsToCheck

SpecPaths == InitPaths /\ [][NextPaths]_vars

----------------------------------------------------------------------------
(* Claims about the search path, checked under SpecPaths. *)

DOT_TOML == <<".","t","o","m","l">>

\* the candidates the documentation names for one directory and a tool name
ManifestAndNamed(dir, name) ==
    << Join(dir, PYPROJECT_TOML), Join(dir, name \o DOT_TOML),
       Join(dir, <<".">> \o name \o DOT_TOML) >>
NamedOnly(dir, name) ==
    << Join(dir, name \o DOT_TOML), Join(dir, <<".">> \o name \o DOT_TOML) >>
CandidatesOf(self, dir) ==
    IF self.check_pyproject_toml THEN ManifestAndNamed(dir, self.namespace[1])
    ELSE NamedOnly(dir, self.namespace[1])

\* the candidates of the first n of: cwd, its parent, ..., the filesystem root
RECURSIVE CandidatesUpward(_, _, _)
CandidatesUpward(self, dir, n) ==
    IF n = 0 THEN <<>>
    ELSE CandidatesOf(self, dir)
         \o (IF n = 1 THEN <<>>
             ELSE CandidatesUpward(self, SubSeq(dir, 1, Len(dir) - 1), n - 1))

Marked(dir) ==
    \/ Join(dir, DOT_GIT) \in DOMAIN fs
    \/ Join(dir, DOT_HG) \in DOMAIN fs
    \/ Join(dir, DOT_SVN) \in DOMAIN fs

Ancestors(dir) == {SubSeq(dir, 1, k) : k \in 0..(Len(dir) - 1)}

UserLevelDisabled(self) ==
    /\ ~self.check_xdg_config_home_dir
    /\ ~self.check_macos_application_support_dir
    /\ ~self.check_windows_appdata_dir
    /\ ~self.check_home_dir

HookPart(self) ==
    IF self.runtime_specified_path_hook = None THEN <<>>
    ELSE <<self.runtime_specified_path_hook.returns>>

Listed == last.op = "paths_to_check"

\* C5: with the user-level locations disabled and no repository marker in the
\* working directory or any ancestor, paths_to_check yields exactly
\* pyproject.toml, {name}.toml, .{name}.toml for the working directory and then
\* for each ancestor up to the filesystem root, and nothing after the root's.
C5_WalkReachesRootAndEnds ==
    ( /\ Listed
      /\ loader.runtime_specified_path_hook = None
      /\ loader.check_pyproject_toml
      /\ loader.search_ancestor_dirs
      /\ UserLevelDisabled(loader)
      /\ \A d \in Ancestors(cwd) \cup {cwd} : ~Marked(d) )
    => last.paths =
          [j \in 1..(3 * (Len(cwd) + 1)) |->
              ManifestAndNamed(SubSeq(cwd, 1, Len(cwd) - ((j - 1) \div 3)),
                               loader.namespace[1])[((j - 1) % 3) + 1]]

C5_Witness ==
    /\ Listed
    /\ loader.runtime_specified_path_hook = None
    /\ loader.check_pyproject_toml
    /\ loader.search_ancestor_dirs
    /\ UserLevelDisabled(loader)
    /\ \A d \in Ancestors(cwd) \cup {cwd} : ~Marked(d)
    /\ Len(cwd) = 2
    /\ Len(last.paths) = 9
    /\ last.paths[9] = Join(ROOT, <<".">> \o loader.namespace[1] \o DOT_TOML)

\* C6: with stop_on_repo_root enabled, a walk started in a subdirectory of a
\* directory holding .git, .hg or .svn yields the candidates of the
\* subdirectory and then those of the marked directory and none of any
\* ancestor of it; started in a marked directory it yields that directory's
\* candidates only.  (The subdirectory itself holds no marker.)
C6_RepoRootStopsWalk ==
    (Listed /\ loader.stop_on_repo_root /\ loader.search_ancestor_dirs)
    => /\ Marked(cwd)
          => last.paths = HookPart(loader) \o CandidatesUpward(loader, cwd, 1)
                          \o UserLevelPaths(loader)
       /\ (Len(cwd) >= 1 /\ ~Marked(cwd) /\ Marked(SubSeq(cwd, 1, Len(cwd) - 1)))
          => last.paths = HookPart(loader) \o CandidatesUpward(loader, cwd, 2)
                          \o UserLevelPaths(loader)

C6_Witness ==
    /\ Listed
    /\ loader.stop_on_repo_root
    /\ loader.search_ancestor_dirs
    /\ Len(cwd) = 2
    /\ ~Marked(cwd)
    /\ Marked(SubSeq(cwd, 1, 1))
    /\ UserLevelDisabled(loader)
    /\ \A i \in 1..Len(last.paths) : last.paths[i].dir # ROOT

\* the arguments the class documentation lists
DOCUMENTED_ARGUMENTS == TOML_LOADER_FIELDS \cup {"search_ancestor_dirs", "stop_on_repo_root"}

\* C7: a TomlFileLoader can be constructed with search_ancestor_dirs=False,
\* and its walk then yields the candidates of the working directory only; it
\* can be constructed with stop_on_repo_root=False, and its walk then goes
\* past a marked directory up to the filesystem root.
C7_WalkTogglesAreConstructorArguments ==
    /\ ( /\ last.op = "TomlFileLoader"
         /\ DOMAIN last.kwargs \subseteq DOCUMENTED_ARGUMENTS
         /\ Len(last.kwargs["namespace"]) >= 1 )
       => /\ ~last.outcome.raised
          /\ \A attr \in DOMAIN last.kwargs : loader[attr] = last.kwargs[attr]
    /\ (Listed /\ ~loader.search_ancestor_dirs)
       => last.paths = HookPart(loader) \o CandidatesUpward(loader, cwd, 1)
                       \o UserLevelPaths(loader)
    /\ (Listed /\ loader.search_ancestor_dirs /\ ~loader.stop_on_repo_root)
       => last.paths = HookPart(loader) \o CandidatesUpward(loader, cwd, Len(cwd) + 1)
                       \o UserLevelPaths(loader)

----------------------------------------------------------------------------
(* Loading: TomlFileLoader instances called over configuration files.      *)

KEY_A == <<"a">>

\* TOML documents.  Each table holds a different value of a, so that the
\* data returned tells which table of which document it was taken from.
DocFull ==
    PyDict( (TOOL_TABLE :> PyDict(FOO :> PyDict( (KEY_A :> PyInt(1))
                                               @@ (BAR :> PyDict(KEY_A :> PyInt(2))) )))
         @@ (FOO :> PyDict( (KEY_A :> PyInt(5)) @@ (BAR :> PyDict(KEY_A :> PyInt(6))) ))
         @@ (BAR :> PyDict(KEY_A :> PyInt(4)))
         @@ (KEY_A :> PyInt(3)) )
\* only the tables of a project manifest
DocManifest ==
    PyDict( TOOL_TABLE :> PyDict(FOO :> PyDict( (KEY_A :> PyInt(7))
                                              @@ (BAR :> PyDict(KEY_A :> PyInt(8))) )) )
\* only the tables of a named file
DocNamed == PyDict( (KEY_A :> PyInt(9)) @@ (BAR :> PyDict(KEY_A :> PyInt(10))) )
DocEmpty == PyDict(EmptyDict)

Docs == {DocFull, DocManifest, DocNamed, DocEmpty}

\* where the configuration files of the loading runs are written: the hook
\* paths, and the candidates of /home and of the root
TomlPaths ==
    HookPaths \cup
    { Join(ChainDir(k), name) :
        k \in 0..1,
        name \in {PYPROJECT_TOML, format(DEFAULT_TEMPLATES[1], FOO),
                  format(DEFAULT_TEMPLATES[2], FOO)} }

TomlKwargs ==
    { kwargs \in AcceptedKwargs(HookPaths) : "check_home_dir" \in DOMAIN kwargs }

\* path.write_text(...) with text that parses to the document toml
WriteFile(path, toml) ==
    /\ \/ exists(path) /\ fs[path] # TomlFile(toml)
       \/ ~exists(path)
          /\ Cardinality({q \in DOMAIN fs : fs[q].kind = "file"}) < MaxFiles
    /\ fs' = (path :> TomlFile(toml)) @@ fs
    /\ last' = NoOp
    /\ UNCHANGED <<cwd, environ, environ_dirs, system, loader, config_cls>>

\* loader(data_class)
CallTomlFileLoader ==
    /\ loader # None
    /\ last' = [op |-> "__call__"] @@ TomlFileLoaderRun(loader)
    /\ UNCHANGED <<cwd, fs, environ, environ_dirs, system, loader, config_cls>>

InitToml ==
    /\ cwd = ChainDir(1)
    /\ fs = EmptyDict
    /\ environ = EmptyDict
    /\ environ_dirs = EmptyDict
    /\ system = "Linux"
    /\ loader = None
    /\ config_cls = None
    /\ last = NoOp

NextToml ==
    \/ \E path \in TomlPaths, toml \in Docs : WriteFile(path, toml)
    \/ \E path \in TomlPaths : Remove(path)
    \/ \E kwargs \in TomlKwargs : NewTomlFileLoader(kwargs)
    \/ CallTomlFileLoader
    \/ ListPathsToCheck

SpecToml == InitToml /\ [][NextToml]_vars

----------------------------------------------------------------------------
(* Claims about loading, checked under SpecToml. *)

Called == last.op = "__call__"

\* the table path the documentation gives for a file: [tool] and the whole
\* namespace in a pyproject.toml, the parts after the first in a named file
DocumentedTablePath(self, path) ==
    IF path.name = PYPROJECT_TOML THEN <<TOOL_TABLE>> \o self.namespace
    ELSE SubSeq(self.namespace, 2, Len(self.namespace))

MISSING == [t |-> "missing"]
NOT_A_TABLE == [t |-> "not a table"]

\* what lies at a table path of a document: the table, MISSING when a
\* segment is absent, NOT_A_TABLE when a segment is no table
RECURSIVE TableAt(_, _)
TableAt(value, table_path) ==
    IF value.t # "dict" THEN NOT_A_TABLE
    ELSE IF Len(table_path) = 0 THEN value
    ELSE IF table_path[1] \notin DOMAIN value.v THEN MISSING
    ELSE TableAt(value.v[table_path[1]], Tail(table_path))

IsTomlFile(path) ==
    path \in DOMAIN fs /\ fs[path].kind = "file" /\ fs[path].toml # MALFORMED

\* the file exists and contains the namespace's table
HasNamespaceTable(self, path) ==
    IsTomlFile(path) /\ TableAt(fs[path].toml, DocumentedTablePath(self, path)).t = "dict"

\* the file exists and lacks a segment of the table path
LacksNamespaceTable(self, path) ==
    IsTomlFile(path) /\ TableAt(fs[path].toml, DocumentedTablePath(self, path)) = MISSING

\* the data of the namespace's table of a file
NamespaceData(self, path) ==
    LET table == TableAt(fs[path].toml, DocumentedTablePath(self, path)).v
    IN  IF self.convert_hyphens THEN ConvertHyphens(table) ELSE table

\* C8: the path a runtime_specified_path_hook returns is the first candidate,
\* before any candidate of the working directory; if a TOML file exists there
\* and contains the namespace's table, the call returns that file's data,
\* whatever other files exist and whatever the file is named.
C8_HookPathIsCheckedFirstAndLoaded ==
    /\ (Listed /\ loader.runtime_specified_path_hook # None)
       => /\ Len(last.paths) >= 1
          /\ last.paths[1] = loader.runtime_specified_path_hook.returns
    /\ ( /\ Called
         /\ loader.runtime_specified_path_hook # None
         /\ HasNamespaceTable(loader, loader.runtime_specified_path_hook.returns) )
       => /\ ~last.outcome.raised
          /\ last.outcome.value =
                NamespaceData(loader, loader.runtime_specified_path_hook.returns)

\* C9: for every candidate the loader visits, the table path it navigates
\* depends only on the file's name and the namespace: "tool" and the whole
\* namespace for pyproject.toml, the parts after the first for any other file.
C9_TablePathDependsOnNameAndNamespace ==
    Called =>
        \A i \in 1..Len(last.visited) :
            last.visited[i].namespace = DocumentedTablePath(loader, last.visited[i].path)

\* C10: a candidate that does not exist, or exists but lacks a segment of
\* the table path, raises no error and the search goes on; the data of the
\* first later candidate that exists and contains the table is returned, and
\* with no such candidate the loader returns no data.
C10_AbsentAndTablelessCandidatesAreSkipped ==
    Called =>
        LET paths == paths_to_check(loader)
            Has(i) == HasNamespaceTable(loader, paths[i])
            Skipped(i) == ~exists(paths[i]) \/ LacksNamespaceTable(loader, paths[i])
        IN  (\A i \in 1..Len(paths) : Has(i) \/ Skipped(i))
            => /\ ~last.outcome.raised
               /\ last.outcome.value =
                     IF \E i \in 1..Len(paths) : Has(i)
                     THEN NamespaceData(loader,
                              paths[CHOOSE i \in 1..Len(paths) :
                                        Has(i) /\ \A j \in 1..(i - 1) : ~Has(j)])
                     ELSE EmptyDict

\* C18: the call returns the data of the first candidate, in search order,
\* that exists and contains the namespace's table, also when that table is
\* empty, and the candidates it opened are those up to that one: none after
\* it.  (The candidates before it are absent or lack the table.)
C18_FirstCandidateWithTableEndsSearch ==
    Called =>
        LET paths == paths_to_check(loader)
            Has(i) == HasNamespaceTable(loader, paths[i])
            Skipped(i) == ~exists(paths[i]) \/ LacksNamespaceTable(loader, paths[i])
        IN  \A i \in 1..Len(paths) :
               (Has(i) /\ \A j \in 1..(i - 1) : Skipped(j))
               => /\ last.outcome = Return(NamespaceData(loader, paths[i]))
                  /\ [k \in 1..Len(last.visited) |-> last.visited[k].path]
                        = SubSeq(paths, 1, i)

----------------------------------------------------------------------------
(* Resolution: classes decorated by custom_configclass with any loaders.   *)

KEY_B == <<"b">>
KEY_C == <<"c">>

Field(name, type, default) ==
    [name |-> name, type |-> type, has_default |-> TRUE, default |-> default]

\* a data class with the fields a, b and c
ConfigClass ==
    [fields |-> << Field(KEY_A, "int", PyInt(-1)), Field(KEY_B, "int", PyInt(-1)),
                   Field(KEY_C, "int", PyInt(-1)) >>]

\* the mappings a loader of the resolution runs returns
LoaderMappings ==
    UNION { [keys -> {PyInt(0), PyInt(1)}] : keys \in SUBSET {KEY_A, KEY_B} }

\* the records [{a: 0}, {a: 1, b: 1}, {a: 2, b: 2, c: 2}]
ExampleLoaders ==
    << Callable(Return(KEY_A :> PyInt(0))),
       Callable(Return((KEY_A :> PyInt(1)) @@ (KEY_B :> PyInt(1)))),
       Callable(Return((KEY_A :> PyInt(2)) @@ (KEY_B :> PyInt(2)) @@ (KEY_C :> PyInt(2)))) >>

LoaderLists ==
    UNION { [1..n -> {Callable(Return(m)) : m \in LoaderMappings}] : n \in 0..MaxLoaders }
    \cup {ExampleLoaders}

\* the keyword arguments of the constructions: any fields, each given 9001
ExplicitKwargs == UNION { [keys -> {PyInt(9001)}] : keys \in SUBSET {KEY_A, KEY_B, KEY_C} }

\* config = cls(*args, **kwargs)
Construct(args, kwargs) ==
    /\ config_cls # None
    /\ last' = [op |-> "__init__", args |-> args, kwargs |-> kwargs]
                @@ init_wrapper(config_cls, args, kwargs)
    /\ UNCHANGED <<cwd, fs, environ, environ_dirs, system, loader, config_cls>>

\* resolve_sources(cls)
ResolveSources ==
    /\ config_cls # None
    /\ last' = [op |-> "resolve_sources"] @@ resolve_sources(config_cls)
    /\ UNCHANGED <<cwd, fs, environ, environ_dirs, system, loader, config_cls>>

InitResolve ==
    /\ cwd = ROOT
    /\ fs = EmptyDict
    /\ environ = EmptyDict
    /\ environ_dirs = EmptyDict
    /\ system = "Linux"
    /\ loader = None
    /\ config_cls \in {custom_configclass(loaders, ConfigClass) : loaders \in LoaderLists}
    /\ last = NoOp

NextResolve ==
    \/ \E kwargs \in ExplicitKwargs : Construct(<<>>, kwargs)
    \/ ResolveSources

SpecResolve == InitResolve /\ [][NextResolve]_vars

----------------------------------------------------------------------------
(* Claims about resolution, checked under SpecResolve. *)

Constructed == last.op = "__init__"
Resolved == last.op = "resolve_sources"

\* the mapping the loader at position i returns
MappingOf(i) == config_cls.loaders[i].outcome.value

FieldNames(cls) == {cls.fields[i].name : i \in 1..Len(cls.fields)}
DefaultOf(cls, name) ==
    (CHOOSE f \in {cls.fields[i] : i \in 1..Len(cls.fields)} : f.name = name).default

\* C2: for any loader list in any order, a field passed as an explicit
\* keyword argument has the explicit value in the constructed object whatever
\* the loaders resolved for it, and every other field keeps its resolved
\* value (or its default when nothing was resolved for it).
C2_ExplicitArgumentsOverrideResolved ==
    Constructed =>
        /\ ~last.outcome.raised
        /\ \A name \in FieldNames(config_cls) :
              last.outcome.value[name] =
                 IF name \in DOMAIN last.kwargs THEN last.kwargs[name]
                 ELSE IF name \in DOMAIN last.resolved THEN last.resolved[name]
                 ELSE DefaultOf(config_cls, name)

C2_Witness ==
    /\ Constructed
    /\ ~last.outcome.raised
    /\ Len(config_cls.loaders) = 2
    /\ KEY_A \in DOMAIN last.kwargs
    /\ KEY_A \in DOMAIN last.resolved
    /\ last.resolved[KEY_A] = PyInt(1)
    /\ last.outcome.value[KEY_A] = PyInt(9001)
    /\ KEY_B \notin DOMAIN last.kwargs
    /\ KEY_B \in DOMAIN last.resolved
    /\ last.outcome.value[KEY_B] = last.resolved[KEY_B]

\* C3: when several sources define a key, the resolved mapping takes the
\* value of the earliest source in loader order that defines it, and keys
\* absent from earlier sources fall through to later ones; the records
\* [{a: 0}, {a: 1, b: 1}, {a: 2, b: 2, c: 2}] resolve to {a: 0, b: 1, c: 2}.
C3_EarliestSourceWins ==
    (Resolved /\ ~last.outcome.raised) =>
        /\ \A i \in 1..Len(config_cls.loaders) :
              \A key \in DOMAIN MappingOf(i) :
                 (\A j \in 1..(i - 1) : key \notin DOMAIN MappingOf(j))
                 => /\ key \in DOMAIN last.outcome.value
                    /\ last.outcome.value[key] = MappingOf(i)[key]
        /\ config_cls.loaders = ExampleLoaders
           => last.outcome.value =
                 (KEY_A :> PyInt(0)) @@ (KEY_B :> PyInt(1)) @@ (KEY_C :> PyInt(2))

\* C4: resolve_sources calls each attached loader exactly once, in the order
\* of the loader list; for every key the resolved value is that of the last
\* loader whose mapping contains the key, and the resolved keys are the union
\* of the loaders' keys.
C4_LoadersCalledInOrderLastSeenWins ==
    Resolved =>
        /\ ~last.outcome.raised
        /\ last.calls = [i \in 1..Len(config_cls.loaders) |-> i]
        /\ DOMAIN last.outcome.value =
              UNION {DOMAIN MappingOf(i) : i \in 1..Len(config_cls.loaders)}
        /\ \A i \in 1..Len(config_cls.loaders) :
              \A key \in DOMAIN MappingOf(i) :
                 (\A j \in (i + 1)..Len(config_cls.loaders) : key \notin DOMAIN MappingOf(j))
                 => last.outcome.value[key] = MappingOf(i)[key]

C4_Witness ==
    /\ Resolved
    /\ config_cls.loaders = ExampleLoaders
    /\ last.calls = <<1, 2, 3>>
    /\ last.outcome.value = (KEY_A :> PyInt(2)) @@ (KEY_B :> PyInt(2)) @@ (KEY_C :> PyInt(2))

----------------------------------------------------------------------------
(* Configuration: a data class decorated by configclass(namespace), with   *)
(* project files and environment variables around it.                      *)

VAR_INT == <<"v","a","r","_","i","n","t">>
VAR_BOOL == <<"v","a","r","_","b","o","o","l">>
VAR_STR == <<"v","a","r","_","s","t","r">>
VAR_BOOL_HYPHEN == <<"v","a","r","-","b","o","o","l">>

\* class DataClassConfig: var_int: int = 0; var_bool: bool = False;
\* var_str: str = "default"
DataClassConfig ==
    [fields |-> << Field(VAR_INT, "int", PyInt(0)), Field(VAR_BOOL, "bool", PyBool(FALSE)),
                   Field(VAR_STR, "str", PyStr(<<"d","e","f","a","u","l","t">>)) >>]

FOO_VAR_INT == <<"F","O","O","_","V","A","R","_","I","N","T">>
FOO_VAR_BOOL == <<"F","O","O","_","V","A","R","_","B","O","O","L">>
FOO_VAR_STR == <<"F","O","O","_","V","A","R","_","S","T","R">>
FOO_BAR_VAR_INT == <<"F","O","O","_","B","A","R","_","V","A","R","_","I","N","T">>
FOO_BAR_VAR_STR == <<"F","O","O","_","B","A","R","_","V","A","R","_","S","T","R">>

\* the variables the environment is given, each with the texts it may hold
EnvChoices ==
    { [name |-> FOO_VAR_INT, value |-> <<"7">>],
      [name |-> FOO_VAR_INT, value |-> <<"T","r","u","e">>],
      [name |-> FOO_VAR_BOOL, value |-> <<"T","r","u","e">>],
      [name |-> FOO_BAR_VAR_INT, value |-> <<"8">>] }

\* [tool.foo] var_int = 10, var_str = "from_file"
CfgTool ==
    PyDict(TOOL_TABLE :> PyDict(FOO :> PyDict(
        (VAR_INT :> PyInt(10)) @@ (VAR_STR :> PyStr(<<"f","r","o","m","_","f","i","l","e">>)) )))
\* [tool.foo.bar] var_int = 11, var_bool = true
CfgToolBar ==
    PyDict(TOOL_TABLE :> PyDict(FOO :> PyDict(BAR :> PyDict(
        (VAR_INT :> PyInt(11)) @@ (VAR_BOOL :> PyBool(TRUE)) ))))
\* [tool.foo] var-bool = true
CfgHyphen ==
    PyDict(TOOL_TABLE :> PyDict(FOO :> PyDict(VAR_BOOL_HYPHEN :> PyBool(TRUE))))
\* var_int = 12 at the top level, and [foo] var_str = "named"
CfgNamed ==
    PyDict( (VAR_INT :> PyInt(12))
         @@ (FOO :> PyDict(VAR_STR :> PyStr(<<"n","a","m","e","d">>))) )

CfgDocs == {CfgTool, CfgToolBar, CfgHyphen, CfgNamed}

CfgPaths ==
    { Join(ChainDir(1), PYPROJECT_TOML), Join(ChainDir(1), format(DEFAULT_TEMPLATES[1], FOO)) }

\* the keyword arguments of the constructions
CfgKwargs ==
    { EmptyDict,
      VAR_INT :> PyInt(9001),
      (VAR_INT :> PyInt(9001)) @@ (VAR_BOOL :> PyBool(FALSE)),
      VAR_STR :> PyStr(<<"g","i","v","e","n">>),
      (VAR_INT :> PyInt(9001)) @@ (VAR_BOOL :> PyBool(FALSE))
          @@ (VAR_STR :> PyStr(<<"g","i","v","e","n">>)) }

\* os.environ[name] = value
Setenv(name, value) ==
    /\ ~(name \in DOMAIN environ /\ environ[name] = value)
    /\ environ' = (name :> value) @@ environ
    /\ last' = NoOp
    /\ UNCHANGED <<cwd, fs, environ_dirs, system, loader, config_cls>>

\* del os.environ[name]
Unsetenv(name) ==
    /\ name \in DOMAIN environ
    /\ environ' = [key \in (DOMAIN environ) \ {name} |-> environ[key]]
    /\ last' = NoOp
    /\ UNCHANGED <<cwd, fs, environ_dirs, system, loader, config_cls>>

InitConfig ==
    /\ cwd = ChainDir(1)
    /\ fs = EmptyDict
    /\ environ = EmptyDict
    /\ environ_dirs = EmptyDict
    /\ system = "Linux"
    /\ loader = None
    /\ config_cls \in {configclass(namespace, None, DataClassConfig).value :
                          namespace \in Namespaces}
    /\ last = NoOp

NextConfig ==
    \/ \E path \in CfgPaths, toml \in CfgDocs : WriteFile(path, toml)
    \/ \E path \in CfgPaths : Remove(path)
    \/ \E choice \in EnvChoices : Setenv(choice.name, choice.value)
    \/ \E choice \in EnvChoices : Unsetenv(choice.name)
    \/ \E kwargs \in CfgKwargs : Construct(<<>>, kwargs)
    \/ ResolveSources

SpecConfig == InitConfig /\ [][NextConfig]_vars

----------------------------------------------------------------------------
(* Claims about configclass, checked under SpecConfig. *)

LoaderOfKind(cls, kind) ==
    CHOOSE ld \in {cls.loaders[i] : i \in 1..Len(cls.loaders)} : ld.kind = kind

\* the namespace the class was decorated with
NamespaceOf(cls) == LoaderOfKind(cls, "TomlFileLoader").self.namespace

\* the environment variable documented for a field of the class
DocumentedVariable(cls, name) ==
    IF NamespaceOf(cls) = <<FOO>>
    THEN IF name = VAR_INT THEN FOO_VAR_INT
         ELSE IF name = VAR_BOOL THEN FOO_VAR_BOOL ELSE FOO_VAR_STR
    ELSE IF name = VAR_INT THEN FOO_BAR_VAR_INT
         ELSE IF name = VAR_BOOL THEN <<"F","O","O","_","B","A","R","_","V","A","R","_","B","O","O","L">> ELSE FOO_BAR_VAR_STR

\* the value documented for the text of a variable and the type of its field
DocumentedValue(text, type) ==
    IF type = "str" THEN PyStr(text)
    ELSE IF type = "int" /\ text = <<"7">> THEN PyInt(7)
    ELSE IF type = "int" /\ text = <<"8">> THEN PyInt(8)
    ELSE IF type = "bool" /\ text = <<"T","r","u","e">> THEN PyBool(TRUE)
    ELSE None

\* the mapping the TOML loader of the class returns in the current state
TomlLayer(cls) == TomlFileLoaderCall(LoaderOfKind(cls, "TomlFileLoader").self).value

\* C1: when a class decorated with configclass(namespace) is constructed,
\* each field of the object has the explicit keyword argument if one was
\* given, else the converted value of its environment variable if that is
\* set, else the value the TOML loader found for it, else its default.
C1_PrecedenceOfLayers ==
    (Constructed /\ ~last.outcome.raised) =>
        \A i \in 1..Len(config_cls.fields) :
            LET field == config_cls.fields[i]
                variable == DocumentedVariable(config_cls, field.name)
            IN  last.outcome.value[field.name] =
                   IF field.name \in DOMAIN last.kwargs THEN last.kwargs[field.name]
                   ELSE IF variable \in DOMAIN environ
                   THEN DocumentedValue(environ[variable], field.type)
                   ELSE IF field.name \in DOMAIN TomlLayer(config_cls)
                   THEN TomlLayer(config_cls)[field.name]
                   ELSE field.default

\* every layer decides one field: var_str is given, FOO_VAR_INT is set over
\* a file that defines var_int too, var-bool comes from the project file
C1_Witness ==
    /\ Constructed
    /\ ~last.outcome.raised
    /\ NamespaceOf(config_cls) = <<FOO>>
    /\ exists(Join(cwd, PYPROJECT_TOML))
    /\ fs[Join(cwd, PYPROJECT_TOML)] = TomlFile(CfgHyphen)
    /\ DOMAIN environ = {FOO_VAR_INT}
    /\ environ[FOO_VAR_INT] = <<"7">>
    /\ DOMAIN last.kwargs = {VAR_STR}
    /\ last.outcome.value =
          (VAR_INT :> PyInt(7)) @@ (VAR_BOOL :> PyBool(TRUE)) @@ (VAR_STR :> last.kwargs[VAR_STR])

----------------------------------------------------------------------------
(* Structure errors: project files in which a segment of the table path    *)
(* holds a scalar.                                                         *)

\* [tool] foo = 1, and foo = 1 and bar = 1 at the top level
DocScalar ==
    PyDict( (TOOL_TABLE :> PyDict(FOO :> PyInt(1)))
         @@ (FOO :> PyInt(1)) @@ (BAR :> PyInt(1)) )

StructureDocs == {DocScalar, DocManifest, DocNamed}

StructurePaths ==
    { Join(ChainDir(1), PYPROJECT_TOML), Join(ChainDir(1), format(DEFAULT_TEMPLATES[1], FOO)),
      Join(ROOT, PYPROJECT_TOML) }

StructureKwargs ==
    { kwargs \in AcceptedKwargs({}) : "check_home_dir" \in DOMAIN kwargs }

NextStructure ==
    \/ \E path \in StructurePaths, toml \in StructureDocs : WriteFile(path, toml)
    \/ \E path \in StructurePaths : Remove(path)
    \/ \E kwargs \in StructureKwargs : NewTomlFileLoader(kwargs)
    \/ CallTomlFileLoader

SpecStructure == InitToml /\ [][NextStructure]_vars

----------------------------------------------------------------------------
(* Claims about structure errors, checked under SpecStructure. *)

\* the dotted text of a table path
RECURSIVE DottedPath(_)
DottedPath(table_path) ==
    IF Len(table_path) = 1 THEN table_path[1]
    ELSE table_path[1] \o <<".">> \o DottedPath(Tail(table_path))

\* the value at a table path all of whose segments but the last are tables
RECURSIVE ValueAt(_, _)
ValueAt(value, table_path) ==
    IF Len(table_path) = 0 THEN value
    ELSE ValueAt(value.v[table_path[1]], Tail(table_path))

\* the candidate exists and a segment of the table path navigated in it is
\* present but is no table
HasScalarSegment(candidate) ==
    /\ IsTomlFile(candidate.path)
    /\ TableAt(fs[candidate.path].toml, candidate.namespace) = NOT_A_TABLE

\* the shortest prefix of the table path whose value is no table
ScalarSegment(candidate) ==
    LET toml == fs[candidate.path].toml
        n == CHOOSE n \in 1..Len(candidate.namespace) :
                /\ TableAt(toml, SubSeq(candidate.namespace, 1, n)) = NOT_A_TABLE
                /\ \A m \in 1..(n - 1) :
                      TableAt(toml, SubSeq(candidate.namespace, 1, m)) # NOT_A_TABLE
    IN  SubSeq(candidate.namespace, 1, n)

\* C11: when a candidate the loader visits holds, at a segment of the table
\* path, a value that is no table, the call raises a TypeError that names the
\* dotted path of that segment and the type found there, and the candidate
\* is the last one visited.
C11_ScalarSegmentIsNamedAndPropagates ==
    Called =>
        \A k \in 1..Len(last.visited) :
            HasScalarSegment(last.visited[k])
            => /\ k = Len(last.visited)
               /\ last.outcome.raised
               /\ last.outcome.type = "TypeError"
               /\ last.outcome.args =
                     << DottedPath(ScalarSegment(last.visited[k])),
                        ValueAt(fs[last.visited[k].path].toml,
                                ScalarSegment(last.visited[k])).t >>

----------------------------------------------------------------------------
(* User-level locations: platforms, directory-valued environment variables *)
(* and the four toggles.                                                   *)

USER_LEVEL_TOGGLES ==
    {"check_xdg_config_home_dir", "check_macos_application_support_dir",
     "check_windows_appdata_dir", "check_home_dir"}

\* keyword arguments that switch any of the toggles off
UserLevelKwargs ==
    { ("namespace" :> ns) @@ [toggle \in off |-> FALSE] @@ pyproject :
        ns \in Namespaces, off \in SUBSET USER_LEVEL_TOGGLES,
        pyproject \in {EmptyDict, ("check_pyproject_toml" :> FALSE)} }

\* what platform.system() returns
Systems == {"Linux", "Darwin", "Windows"}

\* the directory each directory-valued variable is given
EnvDirChoices ==
    { [name |-> "XDG_CONFIG_HOME", dir |-> <<"xdg">>],
      [name |-> "APPDATA", dir |-> <<"appdata">>] }

\* os.environ[name] = str(dir)
SetEnvDir(name, dir) ==
    /\ ~(name \in DOMAIN environ_dirs /\ environ_dirs[name] = dir)
    /\ environ_dirs' = (name :> dir) @@ environ_dirs
    /\ last' = NoOp
    /\ UNCHANGED <<cwd, fs, environ, system, loader, config_cls>>

\* del os.environ[name]
UnsetEnvDir(name) ==
    /\ name \in DOMAIN environ_dirs
    /\ environ_dirs' = [key \in (DOMAIN environ_dirs) \ {name} |-> environ_dirs[key]]
    /\ last' = NoOp
    /\ UNCHANGED <<cwd, fs, environ, system, loader, config_cls>>

InitUserLevel ==
    /\ cwd = ROOT
    /\ fs = EmptyDict
    /\ environ = EmptyDict
    /\ environ_dirs = EmptyDict
    /\ system \in Systems
    /\ loader = None
    /\ config_cls = None
    /\ last = NoOp

NextUserLevel ==
    \/ \E dir \in ChainDirs : Chdir(dir)
    \/ \E choice \in EnvDirChoices : SetEnvDir(choice.name, choice.dir)
    \/ \E choice \in EnvDirChoices : UnsetEnvDir(choice.name)
    \/ \E kwargs \in UserLevelKwargs : NewTomlFileLoader(kwargs)
    \/ ListPathsToCheck

SpecUserLevel == InitUserLevel /\ [][NextUserLevel]_vars

----------------------------------------------------------------------------
(* Claims about the user-level locations, checked under SpecUserLevel. *)

\* the directories the documentation names
XdgConfigDirectory ==
    IF "XDG_CONFIG_HOME" \in DOMAIN environ_dirs THEN environ_dirs["XDG_CONFIG_HOME"]
    ELSE <<"home", ".config">>
MacosApplicationSupport == <<"home", "Library", "Application Support">>
WindowsAppData ==
    IF "APPDATA" \in DOMAIN environ_dirs THEN environ_dirs["APPDATA"]
    ELSE <<"home", "AppData", "Roaming">>

\* the named files of a location whose toggle is on
WhenOn(toggle, dir) == IF toggle THEN NamedOnly(dir, loader.namespace[1]) ELSE <<>>

\* C12: after the candidates of the directory walk, paths_to_check yields
\* the named files of the XDG config directory, then of the application-data
\* directory of the platform (none on a platform that is neither macOS nor
\* Windows, whatever the toggles), then of the home directory, each location
\* if and only if its toggle is on, and pyproject.toml in none of them.
C12_UserLevelLocationsInFixedOrder ==
    Listed =>
        last.paths =
            CandidatesUpward(loader, cwd, Len(cwd) + 1)
            \o WhenOn(loader.check_xdg_config_home_dir, XdgConfigDirectory)
            \o WhenOn(loader.check_macos_application_support_dir /\ system = "Darwin",
                      MacosApplicationSupport)
            \o WhenOn(loader.check_windows_appdata_dir /\ system = "Windows", WindowsAppData)
            \o WhenOn(loader.check_home_dir, <<"home">>)

\* on macOS with every toggle on and XDG_CONFIG_HOME set: two candidates in
\* each of the three locations follow the six of /home and /
C12_Witness ==
    /\ Listed
    /\ system = "Darwin"
    /\ cwd = <<"home">>
    /\ "XDG_CONFIG_HOME" \in DOMAIN environ_dirs
    /\ loader.check_pyproject_toml
    /\ \A toggle \in USER_LEVEL_TOGGLES : loader[toggle]
    /\ Len(last.paths) = 12
    /\ last.paths[7].dir = environ_dirs["XDG_CONFIG_HOME"]
    /\ last.paths[9].dir = MacosApplicationSupport
    /\ last.paths[11].dir = <<"home">>

----------------------------------------------------------------------------
(* The environment loader on its own: EnvVarLoader instances called on a   *)
(* data class among environment variables.                                 *)

MaxEnvVars == 2

FOO_EXTRA == <<"F","O","O","_","E","X","T","R","A">>
FOOD_VAR_INT == <<"F","O","O","D","_","V","A","R","_","I","N","T">>
LOWER_FOO_VAR_INT == <<"f","o","o","_","v","a","r","_","i","n","t">>

EnvLoaderNames ==
    {FOO_VAR_INT, FOO_VAR_BOOL, FOO_BAR_VAR_INT, FOO_EXTRA, FOOD_VAR_INT, LOWER_FOO_VAR_INT}

EnvLoaderTexts ==
    { <<"1">>, <<"T","r","u","e">>, <<"T","R","U","E">>, <<"f","a","l","s","e">>, <<"y","e","s">>, <<>> }

\* the namespaces EnvVarLoader is constructed with; it has no __post_init__
\* and takes the empty sequence as well
EnvLoaderNamespaces == Namespaces \cup {<<>>}

\* loader = EnvVarLoader(namespace, convert_types)
NewEnvVarLoader(namespace, convert_types) ==
    /\ loader' = EnvVarLoader(namespace, convert_types)
    /\ last' = [op |-> "EnvVarLoader", namespace |-> namespace,
                outcome |-> Return(EnvVarLoader(namespace, convert_types))]
    /\ UNCHANGED <<cwd, fs, environ, environ_dirs, system, config_cls>>

\* loader(data_class)
CallEnvVarLoader(data_class) ==
    /\ loader # None
    /\ last' = [op |-> "EnvVarLoader.__call__", data_class |-> data_class,
                outcome |-> EnvVarLoaderCall(loader, data_class)]
    /\ UNCHANGED <<cwd, fs, environ, environ_dirs, system, loader, config_cls>>

InitEnv ==
    /\ cwd = ROOT
    /\ fs = EmptyDict
    /\ environ = EmptyDict
    /\ environ_dirs = EmptyDict
    /\ system = "Linux"
    /\ loader = None
    /\ config_cls = None
    /\ last = NoOp

NextEnv ==
    \/ \E name \in EnvLoaderNames, text \in EnvLoaderTexts :
          /\ name \in DOMAIN environ \/ Cardinality(DOMAIN environ) < MaxEnvVars
          /\ Setenv(name, text)
    \/ \E name \in EnvLoaderNames : Unsetenv(name)
    \/ \E namespace \in EnvLoaderNamespaces, convert_types \in BOOLEAN :
          NewEnvVarLoader(namespace, convert_types)
    \/ CallEnvVarLoader(DataClassConfig)

SpecEnv == InitEnv /\ [][NextEnv]_vars

----------------------------------------------------------------------------
(* Claims about the environment loader, checked under SpecEnv. *)

EnvCalled == last.op = "EnvVarLoader.__call__"

\* the prefix the documentation gives for a namespace
DocumentedPrefix(namespace) ==
    IF namespace = <<FOO>> THEN <<"F","O","O","_">>
    ELSE IF namespace = <<FOO, BAR>> THEN <<"F","O","O","_","B","A","R","_">>
    ELSE <<"_">>

HasPrefix(name, pre) == Len(name) >= Len(pre) /\ SubSeq(name, 1, Len(pre)) = pre
Stripped(name, pre) == SubSeq(name, Len(pre) + 1, Len(name))

\* the field names the remainders of the variable names lower-case to
DocumentedFieldName(rest) ==
    IF rest = <<"V","A","R","_","I","N","T">> THEN VAR_INT
    ELSE IF rest = <<"V","A","R","_","B","O","O","L">> THEN VAR_BOOL
    ELSE IF rest = <<"B","A","R","_","V","A","R","_","I","N","T">> THEN <<"b","a","r","_","v","a","r","_","i","n","t">>
    ELSE IF rest = <<"E","X","T","R","A">> THEN <<"e","x","t","r","a">>
    ELSE None

\* the variables of the environment that start with the documented prefix
Matching(self) == {name \in DOMAIN environ : HasPrefix(name, DocumentedPrefix(self.namespace))}

\* the field name documented for a matching variable
FieldNameOf(self, name) ==
    DocumentedFieldName(Stripped(name, DocumentedPrefix(self.namespace)))

\* C13: the prefix of an EnvVarLoader is its namespace parts upper-cased and
\* joined by underscores, with a trailing underscore; the keys of the mapping
\* a call returns are exactly the lower-cased remainders of the names of the
\* variables that start with the prefix, and no other variable gives a key.
C13_PrefixAndKeys ==
    /\ (last.op = "EnvVarLoader")
       => prefix(loader) = DocumentedPrefix(loader.namespace)
    /\ (EnvCalled /\ ~last.outcome.raised)
       => DOMAIN last.outcome.value = {FieldNameOf(loader, name) : name \in Matching(loader)}

\* FOO_VAR_INT and FOO_BAR_VAR_INT match the prefix FOO_BAR_ or FOO_; a call
\* with FOO_BAR_VAR_INT and FOOD_VAR_INT set returns the one key var_int
C13_Witness ==
    /\ EnvCalled
    /\ ~last.outcome.raised
    /\ loader.namespace = <<FOO, BAR>>
    /\ DOMAIN environ = {FOO_BAR_VAR_INT, FOOD_VAR_INT}
    /\ DOMAIN last.outcome.value = {VAR_INT}

\* the texts that equal "true" and "false" when case is ignored
TRUE_TEXTS == {<<"t","r","u","e">>, <<"T","r","u","e">>, <<"T","R","U","E">>}
FALSE_TEXTS == {<<"f","a","l","s","e">>, <<"F","a","l","s","e">>, <<"F","A","L","S","E">>}

\* the value documented for a text and a declared type, None where the text
\* does not convert
ConvertedText(text, type) ==
    IF type = "str" THEN PyStr(text)
    ELSE IF type = "int" /\ text = <<"1">> THEN PyInt(1)
    ELSE IF type = "bool" /\ text \in TRUE_TEXTS THEN PyBool(TRUE)
    ELSE IF type = "bool" /\ text \in FALSE_TEXTS THEN PyBool(FALSE)
    ELSE None

\* the declared type of a field name of the data class
DeclaredType(data_class, name) ==
    IF \E i \in 1..Len(data_class.fields) : data_class.fields[i].name = name
    THEN (CHOOSE f \in {data_class.fields[i] : i \in 1..Len(data_class.fields)} :
             f.name = name).type
    ELSE "undeclared"

\* C14: with convert_types enabled, the value of a matching variable whose
\* field name is declared on the data class is its text converted to the
\* declared type, and that of an undeclared one is the text unchanged; with
\* convert_types disabled the call returns, and every value is the text.
C14_ConversionOnlyOfDeclaredFields ==
    EnvCalled =>
        /\ ~loader.convert_types => ~last.outcome.raised
        /\ ~last.outcome.raised
           => \A name \in Matching(loader) :
                 LET declared == DeclaredType(last.data_class, FieldNameOf(loader, name)) IN
                 last.outcome.value[FieldNameOf(loader, name)] =
                    IF loader.convert_types /\ declared # "undeclared"
                    THEN ConvertedText(environ[name], declared)
                    ELSE PyStr(environ[name])

\* FOO_VAR_INT=1 is converted to the integer 1, FOO_EXTRA=1 stays the text
C14_Witness ==
    /\ EnvCalled
    /\ loader.convert_types
    /\ loader.namespace = <<FOO>>
    /\ ~last.outcome.raised
    /\ FOO_VAR_INT \in DOMAIN environ
    /\ FOO_EXTRA \in DOMAIN environ
    /\ last.outcome.value =
          (VAR_INT :> PyInt(1)) @@ (<<"e","x","t","r","a">> :> PyStr(<<"1">>))

\* C15: the conversion of the text of a variable of a bool field gives True
\* exactly when the text is "true" in any case, False exactly when it is
\* "false" in any case, and raises ValueError for every other text; no
\* value is returned in its place.
C15_BoolConversion ==
    ( /\ EnvCalled
      /\ loader.convert_types
      /\ loader.namespace = <<FOO>>
      /\ DOMAIN environ = {FOO_VAR_BOOL} )
    => LET text == environ[FOO_VAR_BOOL] IN
       IF text \in TRUE_TEXTS THEN last.outcome = Return(VAR_BOOL :> PyBool(TRUE))
       ELSE IF text \in FALSE_TEXTS THEN last.outcome = Return(VAR_BOOL :> PyBool(FALSE))
       ELSE last.outcome.raised /\ last.outcome.type = "ValueError"

\* FOO_VAR_BOOL=yes makes the call raise
C15_Witness ==
    /\ EnvCalled
    /\ loader.convert_types
    /\ loader.namespace = <<FOO>>
    /\ DOMAIN environ = {FOO_VAR_BOOL}
    /\ environ[FOO_VAR_BOOL] = <<"y","e","s">>
    /\ last.outcome.raised
    /\ last.outcome.type = "ValueError"

----------------------------------------------------------------------------
(* Loaders that raise: classes with the built-in loaders and other         *)
(* callables in any order, among a project file and a variable that may    *)
(* be malformed.                                                           *)

\* the loaders a class of these runs is given
AbortLoaders ==
    { TomlLoader(TomlFileLoader(("namespace" :> <<FOO>>) @@ UserLevelOff).value),
      EnvLoader(EnvVarLoader(<<FOO>>, TRUE)),
      Callable(Return(VAR_STR :> PyStr(<<"c","a","l","l","e","d">>))),
      Callable(Raise("ValueError", <<"hard error">>)) }

AbortLoaderLists == UNION { [1..n -> AbortLoaders] : n \in 1..MaxLoaders }

InitAbort ==
    /\ cwd = ChainDir(1)
    /\ fs = EmptyDict
    /\ environ = EmptyDict
    /\ environ_dirs = EmptyDict
    /\ system = "Linux"
    /\ loader = None
    /\ config_cls \in {custom_configclass(loaders, DataClassConfig) : loaders \in AbortLoaderLists}
    /\ last = NoOp

NextAbort ==
    \/ \E toml \in {DocScalar, CfgTool} : WriteFile(Join(ChainDir(1), PYPROJECT_TOML), toml)
    \/ Remove(Join(ChainDir(1), PYPROJECT_TOML))
    \/ \E text \in {<<"1">>, <<"y","e","s">>} : Setenv(FOO_VAR_INT, text)
    \/ Unsetenv(FOO_VAR_INT)
    \/ \E kwargs \in CfgKwargs : Construct(<<>>, kwargs)
    \/ ResolveSources

SpecAbort == InitAbort /\ [][NextAbort]_vars

----------------------------------------------------------------------------
(* Claims about loaders that raise, checked under SpecAbort. *)

\* the loader at position i raises in the current world
LoaderRaises(i) == CallLoader(config_cls.loaders[i], config_cls).raised

\* the first loader of the list that raises
FirstRaising ==
    CHOOSE i \in 1..Len(config_cls.loaders) :
        LoaderRaises(i) /\ \A j \in 1..(i - 1) : ~LoaderRaises(j)

\* C16: when a loader of the list raises during a construction, the
\* constructor raises that error, the loaders after the one that raised are
\* not called, original_init is not invoked and no object is returned.
C16_LoaderErrorAbortsConstruction ==
    (Constructed /\ \E i \in 1..Len(config_cls.loaders) : LoaderRaises(i))
    => /\ last.outcome.raised
       /\ last.outcome = CallLoader(config_cls.loaders[FirstRaising], config_cls)
       /\ last.calls = [i \in 1..FirstRaising |-> i]
       /\ ~last.initialised

\* the TOML loader meets foo = 1 under [tool] before the environment loader
\* is reached: TypeError, one loader called
C16_Witness ==
    /\ Constructed
    /\ Len(config_cls.loaders) = 3
    /\ config_cls.loaders[1].kind = "callable"
    /\ config_cls.loaders[2].kind = "TomlFileLoader"
    /\ config_cls.loaders[3].kind = "EnvVarLoader"
    /\ LoaderRaises(2)
    /\ last.outcome.raised
    /\ last.outcome.type = "TypeError"
    /\ last.calls = <<1, 2>>
    /\ ~last.initialised

----------------------------------------------------------------------------
(* Setup: declarations of configclasses and constructions of the built-in  *)
(* loaders, with namespaces that may be empty.                             *)

\* the positional arguments of configclass: none, a class (the decorator
\* applied without a call), or a namespace
DeclaredNamespaces == {<<>>, <<CLASS_ARGUMENT>>} \cup Namespaces

\* @configclass(*namespace) on a class
Declare(namespace, cls) ==
    LET made == configclass(namespace, None, cls) IN
    /\ config_cls' = IF made.raised THEN None ELSE made.value
    /\ last' = [op |-> "configclass", namespace |-> namespace, outcome |-> made]
    /\ UNCHANGED <<cwd, fs, environ, environ_dirs, system, loader>>

NextSetup ==
    \/ \E namespace \in DeclaredNamespaces : Declare(namespace, DataClassConfig)
    \/ \E kwargs \in EmptyNamespaceKwargs \cup StructureKwargs : NewTomlFileLoader(kwargs)
    \/ \E namespace \in EnvLoaderNamespaces, convert_types \in BOOLEAN :
          NewEnvVarLoader(namespace, convert_types)
    \/ \E kwargs \in CfgKwargs : Construct(<<>>, kwargs)

SpecSetup == InitEnv /\ [][NextSetup]_vars

----------------------------------------------------------------------------
(* Claims about setup, checked under SpecSetup. *)

\* C17: an empty namespace is rejected at setup: configclass called with no
\* namespace or applied directly to a class, TomlFileLoader constructed with
\* an empty namespace and EnvVarLoader constructed with an empty namespace
\* each raise, and none leaves a class or loader behind.
C17_EmptyNamespaceRejectedAtSetup ==
    /\ ( /\ last.op = "configclass"
         /\ (Len(last.namespace) = 0 \/ last.namespace[1] = CLASS_ARGUMENT) )
       => last.outcome.raised /\ config_cls = None
    /\ (last.op = "TomlFileLoader" /\ Len(last.kwargs["namespace"]) = 0)
       => last.outcome.raised /\ loader = None
    /\ (last.op = "EnvVarLoader" /\ Len(last.namespace) = 0)
       => last.outcome.raised /\ loader = None

----------------------------------------------------------------------------
(* Resolution policies over source records.  The first-only policy is      *)
(* stated by the specification: "discard all but the first record in the   *)
(* sequence; its data is the full result (no merging)".                    *)

\* a source record: the data a loader yielded and its metadata
SourceRecord(data) == [data |-> data, metadata |-> EmptyDict]

\* a variant that merges every record, the earliest record winning per key
RECURSIVE first_only_resolver_MergesAll(_, _)
first_only_resolver_MergesAll(source_data, cls) ==
    IF Len(source_data) = 0 THEN EmptyDict
    ELSE DictUpdate(first_only_resolver_MergesAll(Tail(source_data), cls),
                    source_data[1].data)
\* first_only_resolver(source_data, cls)
first_only_resolver(source_data, cls) ==
    IF Len(source_data) = 0 THEN EmptyDict ELSE source_data[1].data

\* the records [({a: 0}, {}), ({a: 1, b: 1}, {}), ({a: 2, b: 2, c: 2}, {})]
ExampleRecords ==
    [i \in 1..Len(ExampleLoaders) |-> SourceRecord(ExampleLoaders[i].outcome.value)]

RecordSequences ==
    UNION { [1..n -> {SourceRecord(m) : m \in LoaderMappings}] : n \in 0..MaxLoaders }
    \cup {ExampleRecords}

\* first_only_resolver(source_data, ConfigClass)
ApplyFirstOnly ==
    /\ last.op = "source_data"
    /\ last' = [op |-> "first_only_resolver", source_data |-> last.source_data,
                outcome |-> Return(first_only_resolver(last.source_data, ConfigClass))]
    /\ UNCHANGED <<cwd, fs, environ, environ_dirs, system, loader, config_cls>>

InitFirstOnly ==
    /\ cwd = ROOT
    /\ fs = EmptyDict
    /\ environ = EmptyDict
    /\ environ_dirs = EmptyDict
    /\ system = "Linux"
    /\ loader = None
    /\ config_cls = None
    /\ last \in {[op |-> "source_data", source_data |-> source_data] :
                    source_data \in RecordSequences}

NextFirstOnly == ApplyFirstOnly

SpecFirstOnly == InitFirstOnly /\ [][NextFirstOnly]_vars

----------------------------------------------------------------------------
(* Claims about the first-only policy, checked under SpecFirstOnly. *)

\* C19: applied to more than one record with overlapping keys, the
\* first-only policy returns exactly the data of the first record, with no
\* key or value of a later record; the records [{a: 0}, {a: 1, b: 1},
\* {a: 2, b: 2, c: 2}] give {a: 0}.
C19_FirstOnlyReturnsFirstRecord ==
    (last.op = "first_only_resolver" /\ Len(last.source_data) > 1)
    => /\ last.outcome = Return(last.source_data[1].data)
       /\ last.source_data = ExampleRecords
          => last.outcome.value = (KEY_A :> PyInt(0))

C19_Witness ==
    /\ last.op = "first_only_resolver"
    /\ last.source_data = ExampleRecords
    /\ last.outcome.value = (KEY_A :> PyInt(0))
    /\ KEY_B \in DOMAIN last.source_data[2].data

----------------------------------------------------------------------------
(* Successive constructions of one configclass, with the environment and   *)
(* the project file changing between them while the earlier object is      *)
(* kept.                                                                   *)

\* [tool.foo] var_str = "edited"
CfgEdited ==
    PyDict(TOOL_TABLE :> PyDict(FOO :> PyDict(
        VAR_STR :> PyStr(<<"e","d","i","t","e","d">>) )))

FreshDocs == {CfgTool, CfgEdited, CfgHyphen}

FreshEnvChoices ==
    { [name |-> FOO_VAR_STR, value |-> <<"o","n","e">>],
      [name |-> FOO_VAR_STR, value |-> <<"t","w","o">>],
      [name |-> FOO_VAR_INT, value |-> <<"7">>] }

\* what _resolve_sources_method reads: Path.cwd(), the files, os.environ
World == [cwd |-> cwd, fs |-> fs, environ |-> environ]

\* the construction before this one, if the object it made is still held
Earlier ==
    IF last.op = "__init__"
    THEN [made |-> TRUE, world |-> last.world, raised |-> last.outcome.raised,
          resolved |-> last.resolved]
    ELSE [made |-> FALSE]

\* config = cls(**kwargs), the objects made before being kept
ConstructAgain(kwargs) ==
    /\ config_cls # None
    /\ last' = [op |-> "__init__", args |-> <<>>, kwargs |-> kwargs, world |-> World,
                earlier |-> Earlier]
                @@ init_wrapper(config_cls, <<>>, kwargs)
    /\ UNCHANGED <<cwd, fs, environ, environ_dirs, system, loader, config_cls>>

\* os.environ[name] = value, between two constructions
SetenvBetween(name, value) ==
    /\ ~(name \in DOMAIN environ /\ environ[name] = value)
    /\ environ' = (name :> value) @@ environ
    /\ UNCHANGED <<cwd, fs, environ_dirs, system, loader, config_cls, last>>

\* del os.environ[name], between two constructions
UnsetenvBetween(name) ==
    /\ name \in DOMAIN environ
    /\ environ' = [key \in (DOMAIN environ) \ {name} |-> environ[key]]
    /\ UNCHANGED <<cwd, fs, environ_dirs, system, loader, config_cls, last>>

\* the project file is written or rewritten between two constructions
WriteFileBetween(path, toml) ==
    /\ ~(path \in DOMAIN fs /\ fs[path] = TomlFile(toml))
    /\ fs' = (path :> TomlFile(toml)) @@ fs
    /\ UNCHANGED <<cwd, environ, environ_dirs, system, loader, config_cls, last>>

\* the project file is deleted between two constructions
RemoveBetween(path) ==
    /\ path \in DOMAIN fs
    /\ fs' = [other \in (DOMAIN fs) \ {path} |-> fs[other]]
    /\ UNCHANGED <<cwd, environ, environ_dirs, system, loader, config_cls, last>>

InitFresh ==
    /\ cwd = ChainDir(1)
    /\ fs = EmptyDict
    /\ environ = EmptyDict
    /\ environ_dirs = EmptyDict
    /\ system = "Linux"
    /\ loader = None
    /\ config_cls = configclass(<<FOO>>, None, DataClassConfig).value
    /\ last = NoOp

NextFresh ==
    \/ \E toml \in FreshDocs : WriteFileBetween(Join(ChainDir(1), PYPROJECT_TOML), toml)
    \/ RemoveBetween(Join(ChainDir(1), PYPROJECT_TOML))
    \/ \E choice \in FreshEnvChoices : SetenvBetween(choice.name, choice.value)
    \/ \E choice \in FreshEnvChoices : UnsetenvBetween(choice.name)
    \/ \E kwargs \in {EmptyDict, VAR_INT :> PyInt(9001)} : ConstructAgain(kwargs)

SpecFresh == InitFresh /\ [][NextFresh]_vars

----------------------------------------------------------------------------
(* Claims about successive constructions, checked under SpecFresh. *)

\* the second of two constructions of the class
ConstructedAgain == last.op = "__init__" /\ last.earlier.made

\* the var_str the project file of a world gives to [tool.foo], if any
FileVarStr(world) ==
    LET path == Join(world.cwd, PYPROJECT_TOML) IN
    IF path \in DOMAIN world.fs /\ world.fs[path] = TomlFile(CfgTool)
    THEN CfgTool.v[TOOL_TABLE].v[FOO].v[VAR_STR]
    ELSE IF path \in DOMAIN world.fs /\ world.fs[path] = TomlFile(CfgEdited)
    THEN CfgEdited.v[TOOL_TABLE].v[FOO].v[VAR_STR]
    ELSE None

\* C20: the resolved mapping of a construction depends only on the files
\* and the environment at that construction: a second construction in an
\* unchanged state resolves the same mapping as the first, and after a
\* change of FOO_VAR_STR or of the project file the second resolves what the
\* changed state holds, nothing of the earlier resolution being reused.
C20_ResolutionIsFresh ==
    (ConstructedAgain /\ ~last.outcome.raised /\ ~last.earlier.raised) =>
        /\ last.world = last.earlier.world => last.resolved = last.earlier.resolved
        /\ IF FOO_VAR_STR \in DOMAIN last.world.environ
           THEN /\ VAR_STR \in DOMAIN last.resolved
                /\ last.resolved[VAR_STR] = PyStr(last.world.environ[FOO_VAR_STR])
           ELSE IF FileVarStr(last.world) # None
           THEN /\ VAR_STR \in DOMAIN last.resolved
                /\ last.resolved[VAR_STR] = FileVarStr(last.world)
           ELSE VAR_STR \notin DOMAIN last.resolved

\* FOO_VAR_STR was changed between two constructions, and the second
\* resolved the new text where the first had resolved the old one
C20_Witness ==
    /\ ConstructedAgain
    /\ ~last.outcome.raised
    /\ ~last.earlier.raised
    /\ last.world.fs = last.earlier.world.fs
    /\ FOO_VAR_STR \in DOMAIN last.earlier.world.environ
    /\ FOO_VAR_STR \in DOMAIN last.world.environ
    /\ last.earlier.world.environ[FOO_VAR_STR] = <<"o","n","e">>
    /\ last.world.environ[FOO_VAR_STR] = <<"t","w","o">>
    /\ last.earlier.resolved[VAR_STR] = PyStr(<<"o","n","e">>)
    /\ last.resolved[VAR_STR] = PyStr(<<"t","w","o">>)

----------------------------------------------------------------------------
(* Hyphens: files whose tables hold hyphenated keys, at the top level of   *)
(* the table returned and inside its nested tables.                        *)

K_E_Y == <<"k","-","e","-","y">>
PLAIN == <<"p","l","a","i","n">>
SUB_T == <<"s","u","b","-","t">>
IN_N == <<"i","n","-","n">>

\* k-e-y = n, plain = n, and the nested table [sub-t] in-n = n
HyphenTable(n) ==
    (K_E_Y :> PyInt(n)) @@ (PLAIN :> PyInt(n)) @@ (SUB_T :> PyDict(IN_N :> PyInt(n)))

\* the same hyphenated keys in every table a loader of the model may reach
DocHyphens ==
    PyDict( (TOOL_TABLE :> PyDict(FOO :> PyDict(
                HyphenTable(1) @@ (BAR :> PyDict(HyphenTable(2))) )))
         @@ (FOO :> PyDict( HyphenTable(3) @@ (BAR :> PyDict(HyphenTable(4))) ))
         @@ (BAR :> PyDict(HyphenTable(5)))
         @@ HyphenTable(6) )

HyphenDocs == {DocHyphens, DocEmpty}

HyphenPaths ==
    { Join(ChainDir(1), PYPROJECT_TOML), Join(ChainDir(1), format(DEFAULT_TEMPLATES[1], FOO)),
      Join(ROOT, PYPROJECT_TOML) }

HyphenKwargs ==
    { ("namespace" :> ns) @@ toggle @@ UserLevelOff :
        ns \in Namespaces,
        toggle \in {EmptyDict, ("convert_hyphens" :> TRUE), ("convert_hyphens" :> FALSE)} }

NextHyphens ==
    \/ \E path \in HyphenPaths, toml \in HyphenDocs : WriteFile(path, toml)
    \/ \E path \in HyphenPaths : Remove(path)
    \/ \E kwargs \in HyphenKwargs : NewTomlFileLoader(kwargs)
    \/ CallTomlFileLoader

SpecHyphens == InitToml /\ [][NextHyphens]_vars

----------------------------------------------------------------------------
(* Claims about hyphens, checked under SpecHyphens. *)

\* a key with each hyphen replaced by an underscore
Underscored(key) == [i \in 1..Len(key) |-> IF key[i] = "-" THEN "_" ELSE key[i]]

\* the table of the file a call returned from, as it is in the file
TableInFile ==
    LET found == last.visited[Len(last.visited)]
    IN  TableAt(fs[found.path].toml, found.namespace).v

ReturnedFromFile ==
    Called /\ ~last.outcome.raised /\ Len(last.visited) > 0
           /\ exists(last.visited[Len(last.visited)].path)

\* C21: with convert_hyphens enabled (the default), every top-level key of
\* the table a TomlFileLoader returns has each hyphen replaced by an
\* underscore, the values, nested tables included, being those of the file;
\* with convert_hyphens disabled the table is returned as it is in the file.
C21_HyphensOfTopLevelKeysOnly ==
    ReturnedFromFile =>
        IF loader.convert_hyphens
        THEN /\ DOMAIN last.outcome.value = {Underscored(key) : key \in DOMAIN TableInFile}
             /\ \A key \in DOMAIN TableInFile :
                   last.outcome.value[Underscored(key)] = TableInFile[key]
        ELSE last.outcome.value = TableInFile

\* a loader with the default toggle returned k_e_y, plain and sub_t, the
\* nested table of sub_t keeping its key in-n
C21_Witness ==
    /\ ReturnedFromFile
    /\ loader.convert_hyphens
    /\ {<<"k","_","e","_","y">>, PLAIN, <<"s","u","b","_","t">>} \subseteq DOMAIN last.outcome.value
    /\ K_E_Y \notin DOMAIN last.outcome.value
    /\ last.outcome.value[<<"s","u","b","_","t">>] = PyDict(IN_N :> PyInt(1))

----------------------------------------------------------------------------
(* Further claims about loading, checked under SpecToml. *)

\* C22: when no candidate of the search path exists, calling a
\* TomlFileLoader returns the empty mapping and raises no error, whatever
\* its toggles and its hook.
C22_NoCandidateGivesEmptyMapping ==
    (Called /\ \A i \in 1..Len(paths_to_check(loader)) : ~exists(paths_to_check(loader)[i]))
    => last.outcome = Return(EmptyDict)

----------------------------------------------------------------------------
(* Positional arguments: constructions that pass leading fields by         *)
(* position.                                                               *)

\* the positional arguments of the constructions: a, or a and b
PositionalArgs == { <<>>, <<PyInt(9002)>>, <<PyInt(9002), PyInt(9003)>> }

\* keyword arguments that name no field passed by position
TrailingKwargs == { EmptyDict, KEY_C :> PyInt(9001) }

NextPositional ==
    \/ \E args \in PositionalArgs, kwargs \in TrailingKwargs : Construct(args, kwargs)
    \/ ResolveSources

SpecPositional == InitResolve /\ [][NextPositional]_vars

----------------------------------------------------------------------------
(* Claims about positional arguments, checked under SpecPositional. *)

\* C23: a field supplied as a positional argument takes the supplied value,
\* as a field supplied by keyword does, also when a loader resolves a value
\* for the same field: construction succeeds and the positional value wins.
C23_PositionalArgumentsOverrideResolved ==
    (Constructed /\ Len(last.args) > 0) =>
        /\ ~last.outcome.raised
        /\ \A i \in 1..Len(last.args) :
              last.outcome.value[config_cls.fields[i].name] = last.args[i]

----------------------------------------------------------------------------
(* Further claims about configclass, checked under SpecConfig. *)

BAR_VAR_INT == <<"b","a","r","_","v","a","r","_","i","n","t">>

\* the keys of the resolved mapping that are no fields of the class
UndeclaredKeys == DOMAIN last.resolved \ FieldNames(config_cls)

\* C24: every key of the resolved mapping is passed to the original
\* constructor as a keyword argument, a key that is no declared field
\* included (such as bar_var_int, from FOO_BAR_VAR_INT under the namespace
\* foo): the data class constructor then rejects the unknown keyword, and
\* when every key is declared each one reaches its field.
C24_ResolvedKeysAreNotFiltered ==
    (Constructed /\ last.initialised) =>
        /\ (NamespaceOf(config_cls) = <<FOO>> /\ FOO_BAR_VAR_INT \in DOMAIN environ)
           => BAR_VAR_INT \in UndeclaredKeys
        /\ IF UndeclaredKeys # {}
           THEN last.outcome = Raise("TypeError", <<"unexpected keyword argument">>)
           ELSE /\ ~last.outcome.raised
                /\ \A key \in DOMAIN last.resolved \ DOMAIN last.kwargs :
                      last.outcome.value[key] = last.resolved[key]

\* FOO_BAR_VAR_INT is the only source of a class of namespace foo: the key
\* bar_var_int is resolved and the constructor is called with it
C24_Witness ==
    /\ Constructed
    /\ last.initialised
    /\ NamespaceOf(config_cls) = <<FOO>>
    /\ DOMAIN environ = {FOO_BAR_VAR_INT}
    /\ DOMAIN fs = {}
    /\ last.resolved = (BAR_VAR_INT :> PyStr(<<"8">>))
    /\ last.outcome = Raise("TypeError", <<"unexpected keyword argument">>)

----------------------------------------------------------------------------
(* Errors inside loaders: classes whose loaders raise errors of several    *)
(* kinds, and a class that is no configclass, handed to resolve_sources.   *)

\* loaders that return, and loaders that raise an error of each kind
ErrorLoaders ==
    { Callable(Return(KEY_A :> PyInt(0))),
      Callable(Raise("AttributeError", <<"inside loader">>)),
      Callable(Raise("KeyError", <<"inside loader">>)),
      Callable(Raise("ValueError", <<"inside loader">>)),
      Callable(Raise("TypeError", <<"inside loader">>)) }

ErrorLoaderLists == UNION { [1..n -> ErrorLoaders] : n \in 1..MaxLoaders }

InitErrors ==
    /\ cwd = ROOT
    /\ fs = EmptyDict
    /\ environ = EmptyDict
    /\ environ_dirs = EmptyDict
    /\ system = "Linux"
    /\ loader = None
    /\ config_cls \in {ConfigClass}
                      \cup {custom_configclass(loaders, ConfigClass) : loaders \in ErrorLoaderLists}
    /\ last = NoOp

NextErrors ==
    \/ ResolveSources
    \/ \E kwargs \in TrailingKwargs : is_configclass(config_cls) /\ Construct(<<>>, kwargs)

SpecErrors == InitErrors /\ [][NextErrors]_vars

----------------------------------------------------------------------------
(* Claims about errors inside loaders, checked under SpecErrors. *)

NOT_A_CONFIGCLASS ==
    Raise("TypeError", <<"Must be called with configclass type or instance.">>)

\* the loaders of the class that raise, by position
RaisingLoaders ==
    {i \in 1..Len(config_cls.loaders) : config_cls.loaders[i].outcome.raised}

\* C25: resolve_sources(obj) raises the TypeError "Must be called with
\* configclass type or instance." only when obj is no configclass; the error
\* a loader of a configclass raises, of whatever kind, reaches the caller
\* unchanged.
C25_LoaderErrorsReachTheCaller ==
    Resolved =>
        IF ~is_configclass(config_cls) THEN last.outcome = NOT_A_CONFIGCLASS
        ELSE /\ last.outcome # NOT_A_CONFIGCLASS
             /\ RaisingLoaders # {}
                => last.outcome =
                      config_cls.loaders[CHOOSE i \in RaisingLoaders :
                                            \A j \in RaisingLoaders : i <= j].outcome

----------------------------------------------------------------------------
(* Malformed files: candidates whose text the TOML parser rejects.         *)

\* path.write_text(...) with text that tomllib rejects
WriteMalformed(path) == WriteFile(path, MALFORMED)

NextMalformed ==
    \/ \E path \in TomlPaths : WriteMalformed(path)
    \/ \E path \in TomlPaths, toml \in {DocFull, DocEmpty} : WriteFile(path, toml)
    \/ \E path \in TomlPaths : Remove(path)
    \/ \E kwargs \in TomlKwargs : NewTomlFileLoader(kwargs)
    \/ CallTomlFileLoader

SpecMalformed == InitToml /\ [][NextMalformed]_vars

----------------------------------------------------------------------------
(* Claims about malformed files, checked under SpecMalformed. *)

IsMalformed(path) == exists(path) /\ fs[path].kind = "file" /\ fs[path].toml = MALFORMED

\* C26: a candidate that exists but cannot be parsed aborts the call with
\* the parser's error when the candidates before it are absent or lack the
\* namespace's table: it is not skipped, and no later candidate is opened.
C26_MalformedFileAbortsTheCall ==
    Called =>
        LET paths == paths_to_check(loader)
            Passed(j) == ~exists(paths[j]) \/ LacksNamespaceTable(loader, paths[j])
        IN  \A i \in 1..Len(paths) :
               (IsMalformed(paths[i]) /\ \A j \in 1..(i - 1) : Passed(j))
               => /\ last.outcome = Raise("TOMLDecodeError", <<>>)
                  /\ [k \in 1..Len(last.visited) |-> last.visited[k].path]
                        = SubSeq(paths, 1, i)

=============================================================================
